---- MODULE Spec2Model ----
(***************************************************************************)
(* A state-machine model of the PostScript-like interpreter of             *)
(* src/src/interpreter/interpreter.rs and of its operand stack             *)
(* (src/wasm/src/interpreter/stack.rs).                                    *)
(*                                                                         *)
(* The interpreter's fields are the variables op_stack, dict_stack,        *)
(* scoping and quit.  The host call stack of the recursive functions run,  *)
(* exec_proc, op_repeat and op_for is the variable calls; ret is the       *)
(* Result travelling up that call stack.  One action models one dispatch   *)
(* of a value by execute_object, or one loop step / return of a function.  *)
(*                                                                         *)
(* Indices into dict_stack are the 0-based indices of the source; the      *)
(* frame with index i is dict_stack[i + 1].                                *)
(***************************************************************************)
EXTENDS Integers, Sequences, FiniteSets, TLC

VARIABLES
    op_stack,         \* Interpreter.op_stack: Seq of PSObject, top is last
    dict_stack,       \* Interpreter.dict_stack: Seq of Frame, top is last
    scoping,          \* Interpreter.scoping: "Dynamic" or "Lexical"
    quit,             \* Interpreter.quit
    calls,            \* host call stack: activations of run/exec_proc/op_repeat/op_for
    ret,              \* "none" while executing; else the Result in flight / returned
    overflow_checks,  \* build profile: TRUE = integer overflow panics, FALSE = wraps
    runs              \* number of run() calls made by the driver so far

vars == <<op_stack, dict_stack, scoping, quit, calls, ret, overflow_checks, runs>>

----------------------------------------------------------------------------
(* Bounds of the model *)

MaxRuns == 5
MaxCalls == 4

----------------------------------------------------------------------------
(* object.rs: PSObject.  A name's text is a sequence of chunks; the chunk  *)
(* "/" is the literal-name marker character, so "/x" is <<"/", "x">>.      *)

PSInt(n) == [t |-> "Int", v |-> n]
PSBool(b) == [t |-> "Bool", v |-> b]
PSString(s) == [t |-> "String", v |-> s]
PSDict(m) == [t |-> "Dict", v |-> m]
PSArray(a) == [t |-> "Array", v |-> a]
PSName(n) == [t |-> "Name", v |-> n]
PSProcedure(code, env) == [t |-> "Procedure", code |-> code, env |-> env]

\* HashMap::new()
EmptyMap == <<>>

\* HashMap::insert
MapInsert(m, k, val) == [n \in DOMAIN m \cup {k} |-> IF n = k THEN val ELSE m[n]]

\* Frame { map, parent }
Frame(m, p) == [map |-> m, parent |-> p]

\* usize::MAX, the value of 0usize - 1 when overflow wraps; it is written
\* as its two's complement reading because no index of the model equals it.
USIZE_MAX == -1

\* `len - 1` on usize: [ok |-> FALSE] is the overflow panic of a checked build
UsizeSub1(n, checked) ==
    IF n > 0 THEN [ok |-> TRUE, v |-> n - 1]
    ELSE IF checked THEN [ok |-> FALSE, v |-> 0]
    ELSE [ok |-> TRUE, v |-> USIZE_MAX]

----------------------------------------------------------------------------
(* stack.rs: Stack *)

Stack_new == <<>>
Stack_push(s, val) == Append(s, val)
Stack_peek(s) == s[Len(s)]
\* the stack left by pop(); pop() returns None on the empty stack
Stack_pop(s) == IF s = <<>> THEN s ELSE SubSeq(s, 1, Len(s) - 1)

----------------------------------------------------------------------------
(* The interpreter as a record st, so that the steps of one handler can be  *)
(* composed: st.op_stack, st.dict_stack, st.scoping, st.quit, st.calls and  *)
(* st.ret are the values the variables of the same names take.              *)

Cur == [op_stack |-> op_stack, dict_stack |-> dict_stack, scoping |-> scoping,
        quit |-> quit, calls |-> calls, ret |-> ret]

\* the step's result becomes the next state
Commit(st) ==
    /\ op_stack' = st.op_stack
    /\ dict_stack' = st.dict_stack
    /\ scoping' = st.scoping
    /\ quit' = st.quit
    /\ calls' = st.calls
    /\ ret' = st.ret
    /\ UNCHANGED <<overflow_checks, runs>>

\* Err(e) returned by the running function
Err(st, e) == [st EXCEPT !.ret = e]
\* a Rust panic: the process aborts
Panic(st) == [st EXCEPT !.ret = "panic"]
\* self.op_stack.push(v)
Push(st, val) == [st EXCEPT !.op_stack = Stack_push(@, val)]
\* the interpreter after self.op_stack.pop()
Popped(st) == [st EXCEPT !.op_stack = Stack_pop(@)]

\* activations on the host call stack; pc counts the values the `for` loop of
\* run / exec_proc has taken from its iterator
RunAct(toks) == [k |-> "run", toks |-> toks, pc |-> 0]
ProcAct(code, env, env_idx, pushed) ==
    [k |-> "exec_proc", code |-> code, env |-> env, pc |-> 0, env_idx |-> env_idx,
     pushed |-> pushed]
RepeatAct(proc, n) == [k |-> "op_repeat", proc |-> proc, left |-> n]
ForAct(proc, var, inc, limit) ==
    [k |-> "op_for", proc |-> proc, var |-> var, inc |-> inc, limit |-> limit,
     entered |-> FALSE]

----------------------------------------------------------------------------
(* interpreter.rs: name resolution *)

None == [r |-> "None"]
Some(val) == [r |-> "Some", v |-> val]
\* an index outside dict_stack: `index out of bounds` panic
IndexPanic == [r |-> "panic"]

\* a search of frames 1, ..., i that lets the lowest frame binding the name
\* win: what the Dynamic arm would be without `.rev()`
RECURSIVE lookup_fwd(_, _, _)
lookup_fwd(ds, i, name) ==
    IF i = 0 THEN None
    ELSE LET below == lookup_fwd(ds, i - 1, name) IN
         IF below.r = "Some" THEN below
         ELSE IF name \in DOMAIN ds[i].map THEN Some(ds[i].map[name])
         ELSE None

\* lookup_name, Dynamic arm: `for frame in self.dict_stack.iter().rev()`,
\* frames i, i - 1, ..., 1 of the sequence still to visit
RECURSIVE lookup_rev(_, _, _)
lookup_rev(ds, i, name) ==
    IF i = 0 THEN None
    ELSE IF name \in DOMAIN ds[i].map THEN Some(ds[i].map[name])
    ELSE lookup_rev(ds, i - 1, name)

\* lookup_from: follow the parent links from frame idx
RECURSIVE lookup_from(_, _, _)
lookup_from(ds, idx, name) ==
    IF idx < 0 \/ idx >= Len(ds) THEN IndexPanic
    ELSE LET frame == ds[idx + 1] IN
         IF name \in DOMAIN frame.map THEN Some(frame.map[name])
         ELSE IF frame.parent = idx THEN None
         ELSE lookup_from(ds, frame.parent, name)

\* lookup_name: by the scoping mode
lookup_name(st, name) ==
    IF st.scoping = "Dynamic" THEN lookup_rev(st.dict_stack, Len(st.dict_stack), name)
    ELSE LET top == UsizeSub1(Len(st.dict_stack), overflow_checks) IN
         IF top.ok THEN lookup_from(st.dict_stack, top.v, name) ELSE IndexPanic

\* is_operator: the fixed set of operator spellings
OperatorNames ==
    {"add", "sub", "eq", "ne", "gt", "lt", "ge", "le", "and", "or", "not", "mul",
     "div", "mod", "exch", "pop", "dup", "copy", "clear", "count", "dict", "begin",
     "end", "def", "length", "maxlength", "get", "getinterval", "putinterval",
     "true", "false", "if", "ifelse", "for", "repeat", "quit", "print", "=", "==",
     "idiv", "abs", "neg", "ceiling", "floor", "round", "sqrt", "lexical",
     "dynamic", "exec"}

\* an operator test that lets a user binding of the name shadow the built-in
is_operator_unless_bound(n) ==
    /\ Len(n) = 1 /\ n[1] \in OperatorNames
    /\ \A i \in 1..Len(dict_stack) : n \notin DOMAIN dict_stack[i].map

is_operator(n) == Len(n) = 1 /\ n[1] \in OperatorNames

\* n.starts_with('/')
starts_with_slash(n) == Len(n) >= 1 /\ n[1] = "/"

----------------------------------------------------------------------------
(* interpreter.rs: exec_proc, up to the loop over the body.  The loop and   *)
(* the final pop are the actions of execute_object and ProcReturn below.     *)

\* an exec_proc whose pushed frame does not hold the captured environment
exec_proc_EmptyFrame(st, proc_obj) ==
    IF proc_obj.t # "Procedure" THEN Err(st, "typecheck")
    ELSE LET top == UsizeSub1(Len(st.dict_stack), overflow_checks) IN
         IF ~top.ok THEN Panic(st)
         ELSE IF st.scoping = "Lexical"
              THEN LET ds == Append(st.dict_stack, Frame(EmptyMap, top.v)) IN
                   [st EXCEPT !.dict_stack = ds,
                              !.calls = Append(@, ProcAct(proc_obj.code, proc_obj.env,
                                                            Len(ds) - 1, TRUE))]
              ELSE [st EXCEPT !.calls = Append(@, ProcAct(proc_obj.code, proc_obj.env,
                                                          top.v, FALSE))]

exec_proc(st, proc_obj) ==
    IF proc_obj.t # "Procedure" THEN Err(st, "typecheck")
    ELSE LET top == UsizeSub1(Len(st.dict_stack), overflow_checks) IN
         IF ~top.ok THEN Panic(st)
         ELSE IF st.scoping = "Lexical"
              THEN LET ds == Append(st.dict_stack, Frame(proc_obj.env, top.v)) IN
                   [st EXCEPT !.dict_stack = ds,
                              !.calls = Append(@, ProcAct(proc_obj.code, proc_obj.env,
                                                            Len(ds) - 1, TRUE))]
              ELSE [st EXCEPT !.calls = Append(@, ProcAct(proc_obj.code, proc_obj.env,
                                                          top.v, FALSE))]

----------------------------------------------------------------------------
(* interpreter.rs: the operators of the scope engine *)

op_dict(st) ==
    IF st.op_stack # <<>> /\ Stack_peek(st.op_stack).t = "Int"
    THEN \* `i as usize` of a negative i is above isize::MAX: capacity overflow
         IF Stack_peek(st.op_stack).v < 0 THEN Panic(Popped(st))
         ELSE Push(Popped(st), PSDict(EmptyMap))
    ELSE Err(Popped(st), "typecheck")

op_begin(st) ==
    IF st.op_stack # <<>> /\ Stack_peek(st.op_stack).t = "Dict"
    THEN LET parent == UsizeSub1(Len(st.dict_stack), overflow_checks) IN
         IF ~parent.ok THEN Panic(Popped(st))
         ELSE [Popped(st) EXCEPT
                 !.dict_stack = Append(@, Frame(Stack_peek(st.op_stack).v, parent.v))]
    ELSE Err(Popped(st), "typecheck")

\* an end without the `len() <= 1` guard
op_end_unguarded(st) == [st EXCEPT !.dict_stack = Stack_pop(@)]

op_end(st) ==
    IF Len(st.dict_stack) <= 1 THEN Err(st, "dictstackunderflow")
    ELSE [st EXCEPT !.dict_stack = SubSeq(@, 1, Len(@) - 1)]

\* a def that writes its binding into the root frame instead of the top one
op_def_root(st) ==
    IF Len(st.op_stack) < 2 THEN Err(st, "stackunderflow")
    ELSE LET value == Stack_peek(st.op_stack)
             key == Stack_peek(Stack_pop(st.op_stack))
             s2 == Popped(Popped(st))
         IN  IF key.t # "Name" THEN Err(s2, "typecheck")
             ELSE IF s2.dict_stack = <<>> THEN Panic(s2)
             ELSE [s2 EXCEPT !.dict_stack[1].map = MapInsert(@, key.v, value)]

\* a def whose frame shares its storage with the copies of the Mapping that
\* are still on the operand stack
op_def_shared(st) ==
    IF Len(st.op_stack) < 2 THEN Err(st, "stackunderflow")
    ELSE LET value == Stack_peek(st.op_stack)
             key == Stack_peek(Stack_pop(st.op_stack))
             s2 == Popped(Popped(st))
         IN  IF key.t # "Name" THEN Err(s2, "typecheck")
             ELSE IF s2.dict_stack = <<>> THEN Panic(s2)
             ELSE LET old == s2.dict_stack[Len(s2.dict_stack)].map
                      new == MapInsert(old, key.v, value)
                  IN  [s2 EXCEPT
                         !.dict_stack[Len(s2.dict_stack)].map = new,
                         !.op_stack = [i \in DOMAIN @ |->
                                         IF @[i] = PSDict(old) THEN PSDict(new)
                                         ELSE @[i]]]

op_def(st) ==
    IF st.op_stack = <<>> THEN Err(st, "stackunderflow")
    ELSE LET value == Stack_peek(st.op_stack)
             s1 == Popped(st)
         IN  IF s1.op_stack = <<>> THEN Err(s1, "stackunderflow")
             ELSE LET key == Stack_peek(s1.op_stack)
                      s2 == Popped(s1)
                  IN  IF key.t = "Name"
                      THEN IF s2.dict_stack = <<>>
                           THEN Panic(s2)  \* last_mut().unwrap() on no frame
                           ELSE [s2 EXCEPT !.dict_stack[Len(s2.dict_stack)].map =
                                               MapInsert(@, key.v, value)]
                      ELSE Err(s2, "typecheck")

op_quit(st) == [st EXCEPT !.quit = TRUE]
op_lexical(st) == [st EXCEPT !.scoping = "Lexical"]
op_dynamic(st) == [st EXCEPT !.scoping = "Dynamic"]

----------------------------------------------------------------------------
(* i32 arithmetic.  [ok |-> FALSE] is the `attempt to add with overflow`   *)
(* panic of a build with overflow checks; without them the sum wraps.      *)

I32_MAX == 2147483647
I32_MIN == -I32_MAX - 1

\* a + b on i32, computed without leaving the 32-bit range
I32Add(a, b, checked) ==
    IF b > 0 /\ a > I32_MAX - b
    THEN IF checked THEN [ok |-> FALSE, v |-> 0]
         ELSE [ok |-> TRUE, v |-> (a - I32_MAX - 1) + (b - I32_MAX - 1)]
    ELSE IF b < 0 /\ a < I32_MIN - b
    THEN IF checked THEN [ok |-> FALSE, v |-> 0]
         ELSE [ok |-> TRUE, v |-> (a + I32_MAX + 1) + (b + I32_MAX + 1)]
    ELSE [ok |-> TRUE, v |-> a + b]

----------------------------------------------------------------------------
(* interpreter.rs: control operators.  op_if, op_ifelse and op_exec end    *)
(* with the Result of exec_proc, so they keep no activation of their own.  *)

op_exec(st) ==
    IF st.op_stack = <<>> THEN Err(st, "stackunderflow")
    ELSE LET obj == Stack_peek(st.op_stack) IN
         IF obj.t = "Procedure" THEN exec_proc(Popped(st), obj)
         ELSE Err(Popped(st), "typecheck")

op_if(st) ==
    IF st.op_stack = <<>> THEN Err(st, "stackunderflow")
    ELSE LET proc == Stack_peek(st.op_stack)
             s1 == Popped(st)
         IN  IF s1.op_stack = <<>> THEN Err(s1, "stackunderflow")
             ELSE LET cond == Stack_peek(s1.op_stack)
                      s2 == Popped(s1)
                  IN  IF cond.t = "Bool"
                      THEN IF cond.v THEN exec_proc(s2, proc) ELSE s2
                      ELSE Err(s2, "typecheck")

op_ifelse(st) ==
    IF st.op_stack = <<>> THEN Err(st, "stackunderflow")
    ELSE LET proc_f == Stack_peek(st.op_stack)
             s1 == Popped(st)
         IN  IF s1.op_stack = <<>> THEN Err(s1, "stackunderflow")
             ELSE LET proc_t == Stack_peek(s1.op_stack)
                      s2 == Popped(s1)
                  IN  IF s2.op_stack = <<>> THEN Err(s2, "stackunderflow")
                      ELSE LET cond == Stack_peek(s2.op_stack)
                               s3 == Popped(s2)
                           IN  IF cond.t = "Bool"
                               THEN exec_proc(s3, IF cond.v THEN proc_t ELSE proc_f)
                               ELSE Err(s3, "typecheck")

\* op_repeat up to its loop: the loop is the action RepeatStep
op_repeat(st) ==
    IF st.op_stack = <<>> THEN Err(st, "stackunderflow")
    ELSE LET proc == Stack_peek(st.op_stack)
             s1 == Popped(st)
         IN  IF s1.op_stack # <<>> /\ Stack_peek(s1.op_stack).t = "Int"
                /\ Stack_peek(s1.op_stack).v >= 0
             THEN [Popped(s1) EXCEPT
                     !.calls = Append(@, RepeatAct(proc, Stack_peek(s1.op_stack).v))]
             ELSE Err(Popped(s1), "typecheck")

\* pop_int: the Result, and the interpreter after the pop
pop_int(st) ==
    IF st.op_stack = <<>> THEN [e |-> "stackunderflow", st |-> st]
    ELSE IF Stack_peek(st.op_stack).t = "Int"
         THEN [e |-> "Ok", n |-> Stack_peek(st.op_stack).v, st |-> Popped(st)]
         ELSE [e |-> "typecheck", st |-> Popped(st)]

\* op_for up to its loop: the loop is the action ForStep
op_for(st) ==
    IF st.op_stack = <<>> THEN Err(st, "stackunderflow")
    ELSE LET proc == Stack_peek(st.op_stack)
             limit == pop_int(Popped(st))
         IN  IF limit.e # "Ok" THEN Err(limit.st, limit.e)
             ELSE LET inc == pop_int(limit.st) IN
                  IF inc.e # "Ok" THEN Err(inc.st, inc.e)
                  ELSE LET var == pop_int(inc.st) IN
                       IF var.e # "Ok" THEN Err(var.st, var.e)
                       ELSE IF inc.n = 0 THEN Err(var.st, "rangecheck")
                       ELSE [var.st EXCEPT
                               !.calls = Append(@, ForAct(proc, var.n, inc.n, limit.n))]

\* the comparison op_for selects by the sign of inc
for_cmp(inc, var, limit) == IF inc > 0 THEN var <= limit ELSE var >= limit

----------------------------------------------------------------------------
(* The programs handed to run(), as tokenize() returns them: parse_token   *)
(* gives every procedure literal an empty environment.                     *)

X == <<"x">>
SlashX == <<"/", "x">>
Op(n) == PSName(<<n>>)
Lit(code) == PSProcedure(code, EmptyMap)

\* the lines the driver feeds to run()
Programs ==
    { <<PSName(SlashX), PSInt(1), Op("def")>>,
      <<PSInt(1), Op("dict"), Op("begin"), PSName(SlashX), PSInt(2), Op("def")>>,
      <<Op("end")>>,
      <<PSInt(1), Op("dict"), Op("begin"), PSName(SlashX), PSInt(2), Op("def"),
        Op("end"), PSName(X)>>,
      <<Op("lexical")>>,
      <<Op("dynamic")>>,
      <<Lit(<<PSName(X)>>)>>,
      <<Op("exec"), PSInt(1)>>,
      <<PSName(X)>>,
      <<Lit(<<Op("end")>>), Op("exec")>>,
      <<Lit(<<Op("end"), PSName(X)>>), Op("exec")>>,
      <<Op("quit"), PSInt(1)>>,
      <<PSBool(TRUE), Lit(<<PSName(X)>>), Op("if"), PSInt(1)>>,
      <<PSBool(FALSE), Lit(<<PSName(X)>>), Lit(<<Op("end")>>), Op("ifelse")>>,
      <<PSInt(2), Lit(<<PSName(X), Op("quit")>>), Op("repeat"), PSInt(1)>>,
      <<PSInt(1), PSInt(1), PSInt(2), Lit(<<PSName(X)>>), Op("for")>> }

----------------------------------------------------------------------------
(* Interpreter::new *)

Init ==
    /\ op_stack = Stack_new
    /\ dict_stack = <<Frame(EmptyMap, 0)>>
    /\ scoping = "Dynamic"
    /\ quit = FALSE
    /\ calls = <<>>
    /\ ret = "none"
    /\ overflow_checks \in BOOLEAN
    /\ runs = 0

----------------------------------------------------------------------------
(* run, and the fetch of the next value by run's loop or exec_proc's loop  *)

Top == calls[Len(calls)]

\* ret is an Err(..) of the taxonomy
IsErr(r) == r \notin {"none", "Ok", "panic"}

\* a function that would go on after receiving an Err (no `?`)
ExecutingDespiteErr == ret # "panic" /\ calls # <<>> /\ Len(calls) <= MaxCalls

\* a function on the host call stack is executing: every Result it receives
\* passes through `?`, so it goes on only while none is an Err
Executing == ret = "none" /\ calls # <<>> /\ Len(calls) <= MaxCalls
InRun == Executing /\ Top.k = "run"
InProc == Executing /\ Top.k = "exec_proc"

\* the driver calls run(program)
Run ==
    /\ calls = <<>>
    /\ ret # "panic"
    /\ runs < MaxRuns
    /\ \E program \in Programs : calls' = <<RunAct(program)>>
    /\ ret' = "none"
    /\ runs' = runs + 1
    /\ UNCHANGED <<op_stack, dict_stack, scoping, quit, overflow_checks>>

\* run's loop ends (no token left, or `if self.quit { break; }`): Ok(())
RunReturn ==
    /\ InRun
    /\ Top.pc = Len(Top.toks) \/ quit
    /\ calls' = <<>>
    /\ ret' = "Ok"
    /\ UNCHANGED <<op_stack, dict_stack, scoping, quit, overflow_checks, runs>>

\* run: `*env = self.dict_stack.last().unwrap().map.clone()`
Capture(obj) ==
    IF obj.t = "Procedure" /\ DOMAIN obj.env = {}
    THEN [obj EXCEPT !.env = dict_stack[Len(dict_stack)].map]
    ELSE obj

\* the value run's loop takes next
NextTok == Top.toks[Top.pc + 1]

\* run with no frame left: unwrap() of None, or `len() - 1` overflowing
RunFetchPanics ==
    /\ dict_stack = <<>>
    /\ \/ NextTok.t = "Procedure" /\ DOMAIN NextTok.env = {}
       \/ overflow_checks

RunAbort ==
    /\ InRun
    /\ Top.pc < Len(Top.toks) /\ ~quit
    /\ RunFetchPanics
    /\ Commit(Panic(Cur))

\* a run loop without `if self.quit { break; }`
CanFetchAfterQuit ==
    \/ InRun /\ Top.pc < Len(Top.toks) /\ ~RunFetchPanics
    \/ InProc /\ Top.pc < Len(Top.code)

CanFetch ==
    \/ InRun /\ Top.pc < Len(Top.toks) /\ ~quit /\ ~RunFetchPanics
    \/ InProc /\ Top.pc < Len(Top.code)

\* a dispatch that captures into every procedure literal, nested ones too
CurObj_CaptureNested ==
    Capture(IF Top.k = "run" THEN NextTok ELSE Top.code[Top.pc + 1])

\* the value handed to execute_object, and its start_from
CurObj == IF Top.k = "run" THEN Capture(NextTok) ELSE Top.code[Top.pc + 1]
StartFrom ==
    IF Top.k = "run" THEN UsizeSub1(Len(dict_stack), overflow_checks).v
    ELSE Top.env_idx

\* the interpreter once the loop has taken CurObj out of its iterator
Fetched == [Cur EXCEPT !.calls[Len(calls)].pc = @ + 1]

----------------------------------------------------------------------------
(* execute_object: one action per match arm, and per operator of           *)
(* execute_operator                                                        *)

IsOp(n) == CanFetch /\ CurObj.t = "Name" /\ is_operator(CurObj.v) /\ CurObj.v = <<n>>

\* `PSObject::Name(ref n) if n.starts_with('/')`
PushLiteralName ==
    /\ CanFetch
    /\ CurObj.t = "Name" /\ ~is_operator(CurObj.v) /\ starts_with_slash(CurObj.v)
    /\ Commit(Push(Fetched, PSName(Tail(CurObj.v))))

\* a resolution that captures the top frame anew into a procedure it finds
Resolve_Recapture(st, n, start_from) ==
    LET val == IF st.scoping = "Dynamic" THEN lookup_name(st, n)
               ELSE lookup_from(st.dict_stack, start_from, n)
    IN  IF val.r = "Some" /\ val.v.t = "Procedure" /\ st.dict_stack # <<>>
        THEN Some([val.v EXCEPT !.env = st.dict_stack[Len(st.dict_stack)].map])
        ELSE val

\* the value a name resolves to, by the scoping mode
Resolve(st, n, start_from) ==
    IF st.scoping = "Dynamic" THEN lookup_name(st, n)
    ELSE lookup_from(st.dict_stack, start_from, n)

\* `PSObject::Name(ref n)`: resolve and push, or "undefined name"
ResolveName ==
    /\ CanFetch
    /\ CurObj.t = "Name" /\ ~is_operator(CurObj.v) /\ ~starts_with_slash(CurObj.v)
    /\ LET val == Resolve(Fetched, CurObj.v, StartFrom) IN
       Commit(IF val.r = "panic" THEN Panic(Fetched)
              ELSE IF val.r = "None" THEN Err(Fetched, "undefined name")
              ELSE Push(Fetched, val.v))

\* `other => push`
PushLiteral ==
    /\ CanFetch
    /\ CurObj.t # "Name"
    /\ Commit(Push(Fetched, CurObj))

DoDict == IsOp("dict") /\ Commit(op_dict(Fetched))
DoBegin == IsOp("begin") /\ Commit(op_begin(Fetched))
DoEnd == IsOp("end") /\ Commit(op_end(Fetched))
DoDef == IsOp("def") /\ Commit(op_def(Fetched))
DoQuit == IsOp("quit") /\ Commit(op_quit(Fetched))
DoLexical == IsOp("lexical") /\ Commit(op_lexical(Fetched))
DoDynamic == IsOp("dynamic") /\ Commit(op_dynamic(Fetched))
DoExec == IsOp("exec") /\ Commit(op_exec(Fetched))
DoIf == IsOp("if") /\ Commit(op_if(Fetched))
DoIfelse == IsOp("ifelse") /\ Commit(op_ifelse(Fetched))
DoRepeat == IsOp("repeat") /\ Commit(op_repeat(Fetched))
DoFor == IsOp("for") /\ Commit(op_for(Fetched))

----------------------------------------------------------------------------
(* Returns and loops of exec_proc, op_repeat and op_for *)

PopCall(st) == [st EXCEPT !.calls = SubSeq(@, 1, Len(@) - 1)]

\* an exec_proc whose loop also ends when the halt flag is set
ProcReturn_BreakOnQuit ==
    /\ InProc
    /\ Top.pc = Len(Top.code) \/ quit
    /\ Commit(IF Top.pushed
              THEN [PopCall(Cur) EXCEPT
                      !.dict_stack = IF @ = <<>> THEN @ ELSE SubSeq(@, 1, Len(@) - 1)]
              ELSE PopCall(Cur))

\* an exec_proc that leaves the frame it pushed on the scope chain
ProcReturn_KeepFrame ==
    /\ InProc
    /\ Top.pc = Len(Top.code)
    /\ Commit(PopCall(Cur))

\* exec_proc after its loop: `if pushed { self.dict_stack.pop(); }` and Ok(())
ProcReturn ==
    /\ InProc
    /\ Top.pc = Len(Top.code)
    /\ Commit(IF Top.pushed
              THEN [PopCall(Cur) EXCEPT
                      !.dict_stack = IF @ = <<>> THEN @ ELSE SubSeq(@, 1, Len(@) - 1)]
              ELSE PopCall(Cur))

\* op_repeat: `for _ in 0..count { self.exec_proc(proc.clone())?; }` and Ok(())
RepeatStep ==
    /\ Executing
    /\ Top.k = "op_repeat"
    /\ Commit(IF Top.left = 0 THEN PopCall(Cur)
              ELSE exec_proc([Cur EXCEPT !.calls[Len(calls)].left = @ - 1], Top.proc))

\* op_for: `var += inc` after an iteration, the test, the push of var and
\* the next iteration; or Ok(())
ForStep ==
    /\ Executing
    /\ Top.k = "op_for"
    /\ LET var == IF Top.entered THEN I32Add(Top.var, Top.inc, overflow_checks)
                  ELSE [ok |-> TRUE, v |-> Top.var]
       IN  Commit(IF ~var.ok THEN Panic(Cur)
                  ELSE IF for_cmp(Top.inc, var.v, Top.limit)
                  THEN exec_proc(
                         Push([Cur EXCEPT !.calls[Len(calls)].var = var.v,
                                          !.calls[Len(calls)].entered = TRUE],
                              PSInt(var.v)),
                         Top.proc)
                  ELSE PopCall(Cur))

\* `?`: an Err leaves the function that received it
Propagate ==
    /\ IsErr(ret)
    /\ calls # <<>>
    /\ Commit(PopCall(Cur))

Next ==
    \/ Run \/ RunReturn \/ RunAbort
    \/ PushLiteralName \/ ResolveName \/ PushLiteral
    \/ DoDict \/ DoBegin \/ DoEnd \/ DoDef
    \/ DoQuit \/ DoLexical \/ DoDynamic
    \/ DoExec \/ DoIf \/ DoIfelse \/ DoRepeat \/ DoFor
    \/ ProcReturn \/ RepeatStep \/ ForStep \/ Propagate

Spec == Init /\ [][Next]_vars

----------------------------------------------------------------------------
(* interpreter.rs: the tokenizer.  A program text is a sequence of chunks:  *)
(* the characters "(", ")", "{", "}", "[", "]", "/" and " " are chunks of   *)
(* their own, and a run of other characters is one chunk.                   *)

is_whitespace(c) == c = " "

\* raw_tokens: the state of its loop, and the loop's body for the chunk c
RawInit == [toks |-> <<>>, buf |-> <<>>, in_str |-> FALSE, brace_depth |-> 0,
            bracket_depth |-> 0]

\* `toks.push(buf.clone()); buf.clear();`
Emit(s) == [s EXCEPT !.toks = Append(@, s.buf), !.buf = <<>>]

RawStep(s, c) ==
    LET b == [s EXCEPT !.buf = Append(@, c)] IN
    IF s.in_str
    THEN IF c = ")" THEN Emit([b EXCEPT !.in_str = FALSE]) ELSE b
    ELSE IF s.brace_depth > 0 \/ s.bracket_depth > 0
    THEN LET d == CASE c = "{" -> [b EXCEPT !.brace_depth = @ + 1]
                    [] c = "}" -> [b EXCEPT !.brace_depth = @ - 1]
                    [] c = "[" -> [b EXCEPT !.bracket_depth = @ + 1]
                    [] c = "]" -> [b EXCEPT !.bracket_depth = @ - 1]
                    [] OTHER -> b
         IN  IF c \in {"}", "]"} /\ d.brace_depth = 0 /\ d.bracket_depth = 0
             THEN Emit(d) ELSE d
    ELSE CASE c = "(" -> [b EXCEPT !.in_str = TRUE]
           [] c = "{" -> [b EXCEPT !.brace_depth = 1]
           [] c = "[" -> [b EXCEPT !.bracket_depth = 1]
           [] is_whitespace(c) -> IF s.buf # <<>> THEN Emit(s) ELSE s
           [] OTHER -> b

RECURSIVE RawLoop(_, _, _)
RawLoop(s, program, i) ==
    IF i > Len(program) THEN s ELSE RawLoop(RawStep(s, program[i]), program, i + 1)

raw_tokens(program) ==
    LET s == RawLoop(RawInit, program, 1) IN
    IF s.buf # <<>> THEN Append(s.toks, s.buf) ELSE s.toks

\* tok.parse::<i32>() of the numerals the programs use
IntText == [c \in {"0", "1", "2", "7", "8"} |->
              CASE c = "0" -> 0 [] c = "1" -> 1 [] c = "2" -> 2 [] c = "7" -> 7
                [] c = "8" -> 8]

\* a slice `tok[1..tok.len() - 1]` whose start lies after its end panics
SlicePanic == [t |-> "panic"]

\* the Vec tokenize returns, or its panic
TokOk(objs) == [ok |-> TRUE, objs |-> objs]
TokPanic == [ok |-> FALSE, objs |-> <<>>]

RECURSIVE parse_token_NoBool(_)
RECURSIVE parse_token(_)
RECURSIVE tokenize(_)

\* a parse_token without the two boolean arms
parse_token_NoBool(tok) ==
    IF tok[1] = "(" /\ tok[Len(tok)] = ")"
    THEN PSString(SubSeq(tok, 2, Len(tok) - 1))
    ELSE IF tok[1] = "{"
    THEN IF Len(tok) < 2 THEN SlicePanic
         ELSE LET code == tokenize(SubSeq(tok, 2, Len(tok) - 1)) IN
              IF code.ok THEN PSProcedure(code.objs, EmptyMap) ELSE SlicePanic
    ELSE IF tok[1] = "[" /\ tok[Len(tok)] = "]"
    THEN LET vec == tokenize(SubSeq(tok, 2, Len(tok) - 1)) IN
         IF vec.ok THEN PSArray(vec.objs) ELSE SlicePanic
    ELSE IF Len(tok) = 1 /\ tok[1] \in DOMAIN IntText THEN PSInt(IntText[tok[1]])
    ELSE PSName(tok)

parse_token(tok) ==
    IF tok[1] = "(" /\ tok[Len(tok)] = ")"
    THEN PSString(SubSeq(tok, 2, Len(tok) - 1))
    ELSE IF tok[1] = "{"
    THEN IF Len(tok) < 2 THEN SlicePanic
         ELSE LET code == tokenize(SubSeq(tok, 2, Len(tok) - 1)) IN
              IF code.ok THEN PSProcedure(code.objs, EmptyMap) ELSE SlicePanic
    ELSE IF tok[1] = "[" /\ tok[Len(tok)] = "]"
    THEN LET vec == tokenize(SubSeq(tok, 2, Len(tok) - 1)) IN
         IF vec.ok THEN PSArray(vec.objs) ELSE SlicePanic
    ELSE IF Len(tok) = 1 /\ tok[1] \in DOMAIN IntText THEN PSInt(IntText[tok[1]])
    ELSE IF tok = <<"true">> THEN PSBool(TRUE)
    ELSE IF tok = <<"false">> THEN PSBool(FALSE)
    ELSE PSName(tok)

tokenize(program) ==
    LET raws == raw_tokens(program)
        objs == [i \in 1..Len(raws) |-> parse_token(raws[i])]
    IN  IF \E i \in 1..Len(raws) : objs[i] = SlicePanic THEN TokPanic ELSE TokOk(objs)

----------------------------------------------------------------------------
(* stack.rs: exch, dup, copy, count; interpreter.rs: the stack operators   *)
(* and the indexed operators.  A String is a sequence of one-byte chunks.  *)

\* Stack::count
Stack_count(s) == Len(s)

\* an exch that swaps the top element with the bottom one
Stack_exch_bottom(s) ==
    IF Len(s) < 2 THEN [ok |-> FALSE, s |-> s]
    ELSE [ok |-> TRUE, s |-> [s EXCEPT ![Len(s)] = s[1], ![1] = s[Len(s)]]]

\* Stack::exch: the bool returned, and the stack left
Stack_exch(s) ==
    IF Len(s) < 2 THEN [ok |-> FALSE, s |-> s]
    ELSE [ok |-> TRUE,
          s |-> [s EXCEPT ![Len(s)] = s[Len(s) - 1], ![Len(s) - 1] = s[Len(s)]]]

\* a dup that pushes a placeholder on the empty stack
Stack_dup_always(s) ==
    [ok |-> TRUE, s |-> Stack_push(s, IF s = <<>> THEN PSInt(0) ELSE Stack_peek(s))]

\* Stack::dup
Stack_dup(s) ==
    IF s = <<>> THEN [ok |-> FALSE, s |-> s]
    ELSE [ok |-> TRUE, s |-> Stack_push(s, Stack_peek(s))]

\* the sequence s in reverse order
Reverse(s) == [i \in 1..Len(s) |-> s[Len(s) + 1 - i]]

\* a copy that appends the top n elements in reverse order
Stack_copy_reversed(s, n) ==
    IF Stack_count(s) < n THEN [r |-> "false", s |-> s]
    ELSE IF n < 0 THEN [r |-> "panic", s |-> s]
    ELSE [r |-> "true", s |-> s \o Reverse(SubSeq(s, Len(s) - n + 1, Len(s)))]

\* Stack::copy.  For n < 0, `count as usize - n as usize` overflows: a
\* build with overflow checks panics there, and one without them gets
\* n_index = count + |n| > len, so that `&self.stack[n_index..]` panics.
Stack_copy(s, n) ==
    IF Stack_count(s) < n THEN [r |-> "false", s |-> s]
    ELSE IF n < 0 THEN [r |-> "panic", s |-> s]
    ELSE [r |-> "true", s |-> s \o SubSeq(s, Len(s) - n + 1, Len(s))]

op_exch(st) ==
    LET e == Stack_exch(st.op_stack) IN
    IF e.ok THEN [st EXCEPT !.op_stack = e.s] ELSE Err(st, "stackunderflow")

op_pop(st) == IF st.op_stack # <<>> THEN Popped(st) ELSE Err(st, "stackunderflow")

op_dup(st) ==
    LET d == Stack_dup(st.op_stack) IN
    IF d.ok THEN [st EXCEPT !.op_stack = d.s] ELSE Err(st, "stackunderflow")

op_copy(st) ==
    IF st.op_stack # <<>> /\ Stack_peek(st.op_stack).t = "Int"
    THEN LET c == Stack_copy(Stack_pop(st.op_stack), Stack_peek(st.op_stack).v) IN
         IF c.r = "panic" THEN Panic(Popped(st))
         ELSE IF c.r = "true" THEN [st EXCEPT !.op_stack = c.s]
         ELSE Err(Popped(st), "rangecheck")
    ELSE Err(Popped(st), "typecheck")

\* s.as_bytes()[idx]: a String is the sequence of its UTF-8 bytes, the
\* one-byte characters a, b, c and the two bytes C3 A9 of the character e-acute
ByteOf ==
    [c \in {"a", "b", "c", "C3", "A9"} |->
       CASE c = "a" -> 97 [] c = "b" -> 98 [] c = "c" -> 99
         [] c = "C3" -> 195 [] c = "A9" -> 169]

\* the byte offset k of the String v is not inside a character: what the
\* slicing `s[idx..idx + count]` and `replace_range` require of both ends
is_char_boundary(v, k) ==
    k = 0 \/ k = Len(v) \/ (k < Len(v) /\ v[k + 1] # "A9")

\* `PSObject::Int(i) if i >= 0 => i as usize` applied to the popped value:
\* e is "Ok" with the index n, or the error; st is the interpreter after the pop
pop_index(st) ==
    IF st.op_stack = <<>> THEN [e |-> "stackunderflow", n |-> 0, st |-> st]
    ELSE LET v == Stack_peek(st.op_stack) IN
         IF v.t = "Int" /\ v.v >= 0 THEN [e |-> "Ok", n |-> v.v, st |-> Popped(st)]
         ELSE [e |-> "typecheck", n |-> 0, st |-> Popped(st)]

op_get(st) ==
    LET idx == pop_index(st) IN
    IF idx.e # "Ok" THEN Err(idx.st, idx.e)
    ELSE IF idx.st.op_stack = <<>> THEN Err(idx.st, "stackunderflow")
    ELSE LET obj == Stack_peek(idx.st.op_stack)
             s2 == Popped(idx.st)
         IN  IF obj.t = "String"
             THEN IF idx.n < Len(obj.v) THEN Push(s2, PSInt(ByteOf[obj.v[idx.n + 1]]))
                  ELSE Err(s2, "rangecheck")
             ELSE IF obj.t = "Array"
             THEN IF idx.n < Len(obj.v) THEN Push(s2, obj.v[idx.n + 1])
                  ELSE Err(s2, "rangecheck")
             ELSE Err(s2, "typecheck")

op_getinterval(st) ==
    LET count == pop_index(st) IN
    IF count.e # "Ok" THEN Err(count.st, count.e)
    ELSE LET idx == pop_index(count.st) IN
    IF idx.e # "Ok" THEN Err(idx.st, idx.e)
    ELSE IF idx.st.op_stack = <<>> THEN Err(idx.st, "stackunderflow")
    ELSE LET obj == Stack_peek(idx.st.op_stack)
             s3 == Popped(idx.st)
         IN  IF obj.t \in {"String", "Array"}
             THEN IF idx.n + count.n <= Len(obj.v)
                  THEN IF /\ obj.t = "String"
                          /\ ~(/\ is_char_boundary(obj.v, idx.n)
                               /\ is_char_boundary(obj.v, idx.n + count.n))
                       THEN Panic(s3)
                       ELSE Push(s3, [obj EXCEPT !.v =
                                        SubSeq(@, idx.n + 1, idx.n + count.n)])
                  ELSE Err(s3, "rangecheck")
             ELSE Err(s3, "typecheck")

op_putinterval(st) ==
    IF st.op_stack = <<>> THEN Err(st, "stackunderflow")
    ELSE LET src == Stack_peek(st.op_stack)
             idx == pop_index(Popped(st))
         IN  IF idx.e # "Ok" THEN Err(idx.st, idx.e)
             ELSE IF idx.st.op_stack = <<>> THEN Err(idx.st, "stackunderflow")
             ELSE LET dest == Stack_peek(idx.st.op_stack)
                      s3 == Popped(idx.st)
                  IN  IF dest.t \in {"String", "Array"} /\ src.t = dest.t
                      THEN IF idx.n + Len(src.v) <= Len(dest.v)
                           THEN IF /\ dest.t = "String"
                                   /\ ~(/\ is_char_boundary(dest.v, idx.n)
                                        /\ is_char_boundary(dest.v, idx.n + Len(src.v)))
                                THEN Panic(s3)
                                ELSE Push(s3, [dest EXCEPT !.v =
                                       [i \in 1..Len(dest.v) |->
                                          IF i > idx.n /\ i <= idx.n + Len(src.v)
                                          THEN src.v[i - idx.n] ELSE dest.v[i]]])
                           ELSE Err(s3, "rangecheck")
                      ELSE Err(s3, "typecheck")

----------------------------------------------------------------------------
(* interpreter.rs: the arithmetic operators.  `a + b`, `a - b` and `a * b`  *)
(* panic on overflow in a build with overflow checks and wrap in one        *)
(* without; `a / b` and `a % b` panic for i32::MIN and -1 in every build.   *)

\* a - b on i32
I32Sub(a, b, checked) ==
    IF b < 0 /\ a > I32_MAX + b
    THEN IF checked THEN [ok |-> FALSE, v |-> 0]
         ELSE [ok |-> TRUE, v |-> (a - I32_MAX - 1) - (b + I32_MAX + 1)]
    ELSE IF b > 0 /\ a < I32_MIN + b
    THEN IF checked THEN [ok |-> FALSE, v |-> 0]
         ELSE [ok |-> TRUE, v |-> (a + I32_MAX + 1) - (b - I32_MAX - 1)]
    ELSE [ok |-> TRUE, v |-> a - b]

\* a / b for b > 0, truncated toward zero
TruncDivPos(a, b) ==
    IF a >= 0 THEN a \div b
    ELSE IF b = 1 THEN a
    ELSE LET m == -(a + 1) IN
         -((m \div b) + (IF m % b = b - 1 THEN 1 ELSE 0))

\* a / b on i32: [ok |-> FALSE] is `attempt to divide with overflow`
I32Div(a, b) ==
    IF a = I32_MIN /\ b = -1 THEN [ok |-> FALSE, v |-> 0]
    ELSE IF b = I32_MIN THEN [ok |-> TRUE, v |-> IF a = I32_MIN THEN 1 ELSE 0]
    ELSE IF b < 0 THEN [ok |-> TRUE, v |-> -TruncDivPos(a, -b)]
    ELSE [ok |-> TRUE, v |-> TruncDivPos(a, b)]

\* a % b on i32: the remainder of the truncated division
I32Rem(a, b) ==
    LET q == I32Div(a, b) IN
    IF q.ok THEN [ok |-> TRUE, v |-> a - q.v * b] ELSE q

\* x * y modulo 2^16 for x, y in 0..2^16-1
MulMod16(x, y) ==
    (x * (y % 256) + ((x * (y \div 256)) % 256) * 256) % 65536

\* the product a * b modulo 2^32, from the 16-bit halves of a and b
WrapMul(a, b) ==
    LET aL == a % 65536
        aH == (a \div 65536) % 65536
        bL == b % 65536
        bH == (b \div 65536) % 65536
        t  == aL * (bL \div 256)
        u  == (t % 256) * 256 + aL * (bL % 256)
        lo == u % 65536
        hi == ((t \div 256) + (u \div 65536) + MulMod16(aH, bL) + MulMod16(aL, bH))
              % 65536
    IN  IF hi >= 32768 THEN (hi - 65536) * 65536 + lo ELSE hi * 65536 + lo

\* a * b on i32: the product overflows when dividing it back does not give a
I32Mul(a, b, checked) ==
    LET p == WrapMul(a, b)
        exact == \/ a = 0 \/ b = 0
                 \/ /\ ~(p = I32_MIN /\ b = -1) /\ ~(a = I32_MIN /\ b = -1)
                    /\ ~(b = I32_MIN /\ a = -1)
                    /\ I32Div(p, b).v = a /\ I32Rem(p, b).v = 0
    IN  IF exact THEN [ok |-> TRUE, v |-> p]
        ELSE IF checked THEN [ok |-> FALSE, v |-> 0]
        ELSE [ok |-> TRUE, v |-> p]

\* the two operands of a binary operator, popped: `ok_or("stackunderflow")?`
pop_two(st) ==
    IF st.op_stack = <<>> THEN [e |-> "stackunderflow", st |-> st]
    ELSE LET s1 == Popped(st) IN
         IF s1.op_stack = <<>> THEN [e |-> "stackunderflow", st |-> s1]
         ELSE [e |-> "Ok", b |-> Stack_peek(st.op_stack), a |-> Stack_peek(s1.op_stack),
               st |-> Popped(s1)]

\* the push of an i32 result, or the panic of the operation
PushI32(st, r) == IF r.ok THEN Push(st, PSInt(r.v)) ELSE Panic(st)

\* an add that puts its operands back when it fails
op_add_rollback(st) ==
    LET p == pop_two(st) IN
    IF p.e # "Ok" THEN Err(p.st, p.e)
    ELSE IF p.a.t = "Int" /\ p.b.t = "Int"
         THEN PushI32(p.st, I32Add(p.a.v, p.b.v, overflow_checks))
         ELSE Err(st, "typecheck")

op_add(st) ==
    LET p == pop_two(st) IN
    IF p.e # "Ok" THEN Err(p.st, p.e)
    ELSE IF p.a.t = "Int" /\ p.b.t = "Int"
         THEN PushI32(p.st, I32Add(p.a.v, p.b.v, overflow_checks))
         ELSE Err(p.st, "typecheck")

op_sub(st) ==
    LET p == pop_two(st) IN
    IF p.e # "Ok" THEN Err(p.st, p.e)
    ELSE IF p.a.t = "Int" /\ p.b.t = "Int"
         THEN PushI32(p.st, I32Sub(p.a.v, p.b.v, overflow_checks))
         ELSE Err(p.st, "typecheck")

op_mul(st) ==
    LET p == pop_two(st) IN
    IF p.e # "Ok" THEN Err(p.st, p.e)
    ELSE IF p.a.t = "Int" /\ p.b.t = "Int"
         THEN PushI32(p.st, I32Mul(p.a.v, p.b.v, overflow_checks))
         ELSE Err(p.st, "typecheck")

op_div(st) ==
    LET p == pop_two(st) IN
    IF p.e # "Ok" THEN Err(p.st, p.e)
    ELSE IF p.a.t = "Int" /\ p.b.t = "Int"
         THEN IF p.b.v = 0 THEN Err(p.st, "undefinedresult")
              ELSE PushI32(p.st, I32Div(p.a.v, p.b.v))
         ELSE Err(p.st, "typecheck")

op_mod(st) ==
    LET p == pop_two(st) IN
    IF p.e # "Ok" THEN Err(p.st, p.e)
    ELSE IF p.a.t = "Int" /\ p.b.t = "Int"
         THEN IF p.b.v = 0 THEN Err(p.st, "undefinedresult")
              ELSE PushI32(p.st, I32Rem(p.a.v, p.b.v))
         ELSE Err(p.st, "typecheck")

op_idiv(st) ==
    LET b == pop_int(st) IN
    IF b.e # "Ok" THEN Err(b.st, b.e)
    ELSE IF b.n = 0 THEN Err(b.st, "undefinedresult")
    ELSE LET a == pop_int(b.st) IN
         IF a.e # "Ok" THEN Err(a.st, a.e)
         ELSE PushI32(a.st, I32Div(a.n, b.n))

----------------------------------------------------------------------------
(* interpreter.rs: execute_operator, and the specification SpecText, in    *)
(* which run() receives program texts and tokenizes them                   *)

\* the spellings that have an arm in execute_operator
ExecuteArms ==
    {"add", "sub", "mul", "div", "mod", "exch", "pop", "dup", "clear", "count",
     "quit", "copy", "dict", "begin", "end", "def", "length", "maxlength", "=",
     "==", "print", "get", "getinterval", "putinterval", "eq", "ne", "gt", "lt",
     "ge", "le", "and", "or", "not", "if", "ifelse", "for", "repeat", "idiv",
     "abs", "neg", "ceiling", "floor", "round", "sqrt", "lexical", "dynamic",
     "exec"}

\* the arms whose operator this module models
ModelledArms ==
    {"quit", "dict", "begin", "end", "def", "if", "ifelse", "for", "repeat",
     "lexical", "dynamic", "exec", "exch", "pop", "dup", "copy", "get",
     "getinterval", "putinterval", "add", "sub", "mul", "div", "mod", "idiv"}

\* execute_operator: the arm of op, or `_ => Err("Unknown operator ..")`
execute_operator(st, op) ==
    CASE op = "add" -> op_add(st)
      [] op = "sub" -> op_sub(st)
      [] op = "mul" -> op_mul(st)
      [] op = "div" -> op_div(st)
      [] op = "mod" -> op_mod(st)
      [] op = "exch" -> op_exch(st)
      [] op = "pop" -> op_pop(st)
      [] op = "dup" -> op_dup(st)
      [] op = "quit" -> op_quit(st)
      [] op = "copy" -> op_copy(st)
      [] op = "dict" -> op_dict(st)
      [] op = "begin" -> op_begin(st)
      [] op = "end" -> op_end(st)
      [] op = "def" -> op_def(st)
      [] op = "get" -> op_get(st)
      [] op = "getinterval" -> op_getinterval(st)
      [] op = "putinterval" -> op_putinterval(st)
      [] op = "if" -> op_if(st)
      [] op = "ifelse" -> op_ifelse(st)
      [] op = "for" -> op_for(st)
      [] op = "repeat" -> op_repeat(st)
      [] op = "idiv" -> op_idiv(st)
      [] op = "lexical" -> op_lexical(st)
      [] op = "dynamic" -> op_dynamic(st)
      [] op = "exec" -> op_exec(st)
      [] op \notin ExecuteArms -> Err(st, "Unknown operator")

\* the value about to be dispatched takes execute_object's operator arm
AtOperator == CanFetch /\ CurObj.t = "Name" /\ is_operator(CurObj.v)

\* `PSObject::Name(ref n) if self.is_operator(n) => self.execute_operator(n)`
ExecuteOperator ==
    /\ AtOperator
    /\ CurObj.v[1] \in ModelledArms \cup (OperatorNames \ ExecuteArms)
    /\ Commit(execute_operator(Fetched, CurObj.v[1]))

MaxTextRuns == 3

\* the program texts the driver feeds to run(), chunk by chunk
Texts ==
    { <<"/", "end", " ", "7", " ", "def">>,
      <<"end">>,
      <<"x">>,
      <<"1", " ", "dict", " ", "begin">>,
      <<"lexical">>,
      <<"/", "dynamic", " ", "8", " ", "def", " ", "{", "dynamic", "}", " ", "exec">>,
      <<"/", "true", " ", "1", " ", "def", " ", "true", " ", "{", "true", "}", " ",
        "if">>,
      <<"false", " ", "{", "x", "}", " ", "{", "end", "}", " ", "ifelse">>,
      <<"1", " ", "{", "dynamic", "}", " ", "repeat">>,
      <<"1", " ", "1", " ", "1", " ", "{", "quit", "}", " ", "for">> }

\* run(program): `for mut obj in Self::tokenize(program)`
RunText ==
    /\ calls = <<>>
    /\ ret # "panic"
    /\ runs < MaxTextRuns
    /\ \E program \in Texts :
         LET toks == tokenize(program) IN
         IF toks.ok THEN calls' = <<RunAct(toks.objs)>> /\ ret' = "none"
         ELSE calls' = <<>> /\ ret' = "panic"
    /\ runs' = runs + 1
    /\ UNCHANGED <<op_stack, dict_stack, scoping, quit, overflow_checks>>

NextText ==
    \/ RunText \/ RunReturn \/ RunAbort
    \/ ExecuteOperator \/ PushLiteralName \/ ResolveName \/ PushLiteral
    \/ ProcReturn \/ RepeatStep \/ ForStep \/ Propagate

SpecText == Init /\ [][NextText]_vars

----------------------------------------------------------------------------
(* The specification SpecOps: an interpreter whose operand stack holds any  *)
(* values pushed earlier runs a program of stack or indexed operators       *)

MaxDepth == 3

AB == <<"a", "b">>
EAcute == <<"C3", "A9">>
OpValues ==
    {PSInt(-1), PSInt(0), PSInt(1), PSInt(2), PSString(AB), PSString(<<"c">>),
     PSString(EAcute), PSArray(<<PSInt(1), PSInt(2)>>), PSArray(<<PSInt(0)>>)}

\* the operand stacks of at most MaxDepth values
OpStacks == UNION {[1..d -> OpValues] : d \in 0..MaxDepth}

OpPrograms ==
    { <<Op("exch"), Op("exch")>>, <<Op("dup")>>, <<Op("pop")>>, <<Op("copy")>>,
      <<Op("get")>>, <<Op("getinterval")>>, <<Op("putinterval")>>,
      <<Op("dict")>>, <<Op("begin")>>,
      <<Op("dup"), PSInt(0), PSString(<<"c">>), Op("putinterval")>>,
      <<PSInt(1), Op("dict"), Op("dup"), Op("begin"), PSName(SlashX), PSInt(2),
        Op("def")>> }

InitOps ==
    /\ op_stack \in OpStacks
    /\ dict_stack = <<Frame(EmptyMap, 0)>>
    /\ scoping = "Dynamic"
    /\ quit = FALSE
    /\ calls \in {<<RunAct(program)>> : program \in OpPrograms}
    /\ ret = "none"
    /\ overflow_checks \in BOOLEAN
    /\ runs = 1

NextOps ==
    ExecuteOperator \/ PushLiteral \/ PushLiteralName \/ RunReturn \/ Propagate

SpecOps == InitOps /\ [][NextOps]_vars

----------------------------------------------------------------------------
(* The specification SpecArith: an interpreter whose operand stack holds    *)
(* integers up to both ends of i32 runs one arithmetic operator             *)

MaxArithDepth == 3

ArithValues ==
    {PSInt(n) : n \in {I32_MIN, -7, -1, 0, 2, 7, I32_MAX}} \cup {PSString(AB)}

ArithStacks == UNION {[1..d -> ArithValues] : d \in 0..MaxArithDepth}

ArithPrograms ==
    { <<Op(o)>> : o \in {"add", "sub", "mul", "div", "mod", "idiv"} }

InitArith ==
    /\ op_stack \in ArithStacks
    /\ dict_stack = <<Frame(EmptyMap, 0)>>
    /\ scoping = "Dynamic"
    /\ quit = FALSE
    /\ calls \in {<<RunAct(program)>> : program \in ArithPrograms}
    /\ ret = "none"
    /\ overflow_checks \in BOOLEAN
    /\ runs = 1

NextArith == ExecuteOperator \/ RunReturn \/ Propagate

SpecArith == InitArith /\ [][NextArith]_vars

----------------------------------------------------------------------------
(* The specification SpecFor: run() is handed one line `i s l {body} for`   *)

MaxForVal == 2

\* an increment that leaves i32 after two steps from 0
HalfRange == (I32_MAX \div 2) + 1

ForProgram(i, s, l, body) == <<PSInt(i), PSInt(s), PSInt(l), Lit(body), Op("for")>>

ForPrograms ==
    {ForProgram(i, s, l, body) :
       i \in 0..MaxForVal, s \in {-1, 0, 1, 2}, l \in 0..MaxForVal,
       body \in {<<>>, <<Op("pop")>>}}
    \cup {ForProgram(1, 1, 5, <<Op("dup"), Op("mul")>>),
          ForProgram(0, HalfRange, I32_MAX, <<Op("pop")>>),
          ForProgram(0, -HalfRange, I32_MIN, <<Op("pop")>>)}

InitFor ==
    /\ op_stack = <<>>
    /\ dict_stack = <<Frame(EmptyMap, 0)>>
    /\ scoping \in {"Dynamic", "Lexical"}
    /\ quit = FALSE
    /\ calls \in {<<RunAct(program)>> : program \in ForPrograms}
    /\ ret = "none"
    /\ overflow_checks \in BOOLEAN
    /\ runs = 1

NextFor ==
    PushLiteral \/ ExecuteOperator \/ ForStep \/ ProcReturn \/ RunReturn \/ Propagate

SpecFor == InitFor /\ [][NextFor]_vars

----------------------------------------------------------------------------
(* The specification SpecClosure: the driver feeds run() lines that build,  *)
(* store, push and execute procedure literals, at top level and nested      *)

MaxClosureRuns == 3

P == <<"p">>

ClosureTexts ==
    { <<"/", "x", " ", "1", " ", "def", " ", "/", "p", " ", "{", "x", "}", " ", "def">>,
      <<"/", "x", " ", "2", " ", "def", " ", "lexical">>,
      <<"p", " ", "exec">>,
      <<"{", " ", "{", "x", "}", " ", "}", " ", "exec", " ", "exec">>,
      <<"{", "/", "x", " ", "7", " ", "def", "}", " ", "exec", " ", "x">>,
      <<"1", " ", "dict", " ", "begin", " ", "/", "x", " ", "8", " ", "def">>,
      <<"end">>,
      <<"[", " ", "{", "x", "}", " ", "]">> }

\* run(program): `for mut obj in Self::tokenize(program)`
RunClosureText ==
    /\ calls = <<>>
    /\ ret # "panic"
    /\ runs < MaxClosureRuns
    /\ \E program \in ClosureTexts :
         LET toks == tokenize(program) IN
         IF toks.ok THEN calls' = <<RunAct(toks.objs)>> /\ ret' = "none"
         ELSE calls' = <<>> /\ ret' = "panic"
    /\ runs' = runs + 1
    /\ UNCHANGED <<op_stack, dict_stack, scoping, quit, overflow_checks>>

NextClosure ==
    \/ RunClosureText \/ RunReturn
    \/ ExecuteOperator \/ PushLiteralName \/ ResolveName \/ PushLiteral
    \/ ProcReturn \/ Propagate

SpecClosure == Init /\ [][NextClosure]_vars

----------------------------------------------------------------------------
(* The specification SpecTok: tokenize on any text of at most MaxChars      *)
(* characters; raw_tokens runs its loop one character a step and           *)
(* parse_token is then applied to each token it returned                   *)

MaxChars == 4

TokChars == {"{", "}", "[", "]", "(", ")", " ", "a"}

TokTexts == UNION {[1..n -> TokChars] : n \in 0..MaxChars}

\* raw_tokens(program) on the host call stack: s is the state of its loop
TokAct(program) ==
    [k |-> "raw_tokens", program |-> program, pc |-> 0, s |-> RawInit, done |-> FALSE]

InitTok ==
    /\ op_stack = Stack_new
    /\ dict_stack = <<Frame(EmptyMap, 0)>>
    /\ scoping = "Dynamic"
    /\ quit = FALSE
    /\ calls \in {<<TokAct(program)>> : program \in TokTexts}
    /\ ret = "none"
    /\ overflow_checks \in BOOLEAN
    /\ runs = 1

InRawTokens == calls # <<>> /\ Top.k = "raw_tokens" /\ ~Top.done

\* one turn of `for c in program.chars()`
RawTokensStep ==
    /\ InRawTokens
    /\ Top.pc < Len(Top.program)
    /\ calls' = <<[Top EXCEPT !.s = RawStep(@, Top.program[Top.pc + 1]),
                              !.pc = @ + 1]>>
    /\ UNCHANGED <<op_stack, dict_stack, scoping, quit, ret, overflow_checks, runs>>

\* after the loop: `if !buf.is_empty() { toks.push(buf); }` and toks
RawTokensReturn ==
    /\ InRawTokens
    /\ Top.pc = Len(Top.program)
    /\ calls' = <<[Top EXCEPT !.s.toks = IF Top.s.buf # <<>> THEN Append(@, Top.s.buf)
                                          ELSE @,
                              !.done = TRUE]>>
    /\ UNCHANGED <<op_stack, dict_stack, scoping, quit, ret, overflow_checks, runs>>

\* tokenize: `.map(|raw| Self::parse_token(&raw)).collect()` on the tokens
\* raw_tokens returned; a slice panic in parse_token aborts the process
TokenizeParse ==
    /\ calls # <<>> /\ Top.k = "raw_tokens" /\ Top.done
    /\ ret = "none"
    /\ LET raws == Top.s.toks
           objs == [i \in 1..Len(raws) |-> parse_token(raws[i])]
       IN  IF \E i \in 1..Len(raws) : objs[i] = SlicePanic
           THEN calls' = calls /\ ret' = "panic"
           ELSE /\ calls' = <<[k |-> "tokenize", program |-> Top.program,
                                objs |-> objs]>>
                /\ ret' = "none"
    /\ UNCHANGED <<op_stack, dict_stack, scoping, quit, overflow_checks, runs>>

NextTokenizer == RawTokensStep \/ RawTokensReturn \/ TokenizeParse

SpecTok == InitTok /\ [][NextTokenizer]_vars

----------------------------------------------------------------------------
(* The specification SpecQuit: run() is handed one line in which quit       *)
(* executes at top level or in the body of exec, repeat or for              *)

QuitBody == Lit(<<Op("quit"), PSInt(7)>>)

QuitPrograms ==
    { <<PSInt(7), Op("quit"), PSInt(8)>>,
      <<QuitBody, Op("exec"), PSInt(8)>>,
      <<PSInt(2), QuitBody, Op("repeat"), PSInt(8)>>,
      <<PSInt(1), PSInt(1), PSInt(2), Lit(<<Op("quit"), Op("pop")>>), Op("for"),
        PSInt(8)>>,
      <<Lit(<<QuitBody, Op("exec"), PSInt(0)>>), Op("exec"), PSInt(8)>> }

InitQuit ==
    /\ op_stack = Stack_new
    /\ dict_stack = <<Frame(EmptyMap, 0)>>
    /\ scoping \in {"Dynamic", "Lexical"}
    /\ quit = FALSE
    /\ calls \in {<<RunAct(program)>> : program \in QuitPrograms}
    /\ ret = "none"
    /\ overflow_checks \in BOOLEAN
    /\ runs = 1

NextQuit ==
    PushLiteral \/ ExecuteOperator \/ RepeatStep \/ ForStep \/ ProcReturn \/ RunReturn

SpecQuit == InitQuit /\ [][NextQuit]_vars

----------------------------------------------------------------------------
(* The specification SpecForLive: SpecFor with the interpreter taking a     *)
(* step whenever it can; a panic ends the process and leaves none to take   *)

SpecForLive == InitFor /\ [][NextFor]_vars /\ WF_vars(NextFor)

----------------------------------------------------------------------------
(* Claims *)

\* C1: after any sequence of run() calls the scope chain holds at least one
\* frame, and frame 0 is the root frame (the frame that is its own parent).
C1_RootNeverRemoved ==
    /\ Len(dict_stack) >= 1
    /\ dict_stack[1].parent = 0

\* the body executes neither begin nor end
NoBeginEnd(code) ==
    \A i \in 1..Len(code) : code[i] \notin {Op("begin"), Op("end")}

\* C2: in lexical mode, when the execution of a procedure whose body
\* executes neither begin nor end ends, with Ok or because an Err leaves it,
\* the closure frame pushed for it has been popped: the chain again has the
\* env_idx frames it had before the call.
C2_ClosureFramePoppedOnError ==
    [][(/\ calls # <<>>
        /\ Top.k = "exec_proc"
        /\ Top.pushed
        /\ NoBeginEnd(Top.code)
        /\ Len(calls') < Len(calls))
       => Len(dict_stack') = Top.env_idx]_vars

\* C3: no dispatch of a value, operator or name lookup, aborts the
\* interpreter: each ends with success or a tagged error.
C3_NoAbort == [][CanFetch => ret' # "panic"]_vars

\* C4: once a dispatched value has returned an Err, nothing more is
\* dispatched in this run(): every step only returns from the innermost
\* function with the same Err and leaves the interpreter as it is, so run()
\* hands that Err to its caller.
C4_FirstErrorAborts ==
    [][(IsErr(ret) /\ calls # <<>>)
       => /\ ret' = ret
          /\ calls' = SubSeq(calls, 1, Len(calls) - 1)
          /\ op_stack' = op_stack
          /\ dict_stack' = dict_stack
          /\ scoping' = scoping
          /\ quit' = quit]_vars

\* an Err in flight below a loop iteration and a top level that both have
\* values left to dispatch
C4_Witness ==
    /\ IsErr(ret)
    /\ Len(calls) = 3
    /\ calls[1].k = "run" /\ calls[1].pc < Len(calls[1].toks)
    /\ calls[2].k = "op_repeat" /\ calls[2].left > 0
    /\ calls[3].k = "exec_proc" /\ calls[3].pc < Len(calls[3].code)

\* C5: the quit flag, once set, stays set; with the flag set the run loop
\* takes no token, of this run() or of a later one, and returns Ok leaving
\* the interpreter as it is; quit itself leaves the operand stack and the
\* scope chain unchanged.
C5_QuitHalts ==
    [][/\ quit => quit'
       /\ (quit /\ InRun)
          => /\ calls' = <<>> /\ ret' = "Ok"
             /\ op_stack' = op_stack /\ dict_stack' = dict_stack
             /\ scoping' = scoping
       /\ IsOp("quit")
          => quit' /\ op_stack' = op_stack /\ dict_stack' = dict_stack]_vars

\* a later run() entered with the flag set and tokens to process
C5_Witness ==
    /\ quit
    /\ InRun
    /\ runs >= 2
    /\ Top.pc = 0 /\ Len(Top.toks) > 0

\* the value just dispatched by the innermost exec_proc is the executable,
\* non-operator name n
JustResolved(n) ==
    /\ calls # <<>>
    /\ Top.k = "exec_proc"
    /\ Top.pc >= 1
    /\ Top.code[Top.pc] = PSName(n)
    /\ ~is_operator(n) /\ ~starts_with_slash(n)

AtNameLookup ==
    /\ CanFetch
    /\ CurObj.t = "Name"
    /\ ~is_operator(CurObj.v) /\ ~starts_with_slash(CurObj.v)

\* C7: in lexical mode the lookup of an executable name starts at a frame of
\* the chain, the top frame for a name at top level and the frame at the
\* index of its closure frame for a name in a body, and ends by finding the
\* name or reaching the root.
C7_LexicalStartFrame ==
    (scoping = "Lexical" /\ AtNameLookup)
    => /\ StartFrom \in 0..(Len(dict_stack) - 1)
       /\ Top.k = "run" => StartFrom = Len(dict_stack) - 1
       /\ lookup_from(dict_stack, StartFrom, CurObj.v).r \in {"Some", "None"}


\* the indices (from 1) of the frames of the chain that bind n
Binders(n) == {i \in 1..Len(dict_stack) : n \in DOMAIN dict_stack[i].map}
\* the greatest element of a non-empty set of numbers
Highest(S) == CHOOSE i \in S : \A j \in S : j <= i

\* C8: in dynamic mode a call of a procedure pushes no frame, and an
\* executable name of a body resolves to the binding of the highest frame of
\* the live chain that binds it, or is an undefined name when no frame does;
\* the environment captured by the procedure has no part in it.
C8_DynamicUsesLiveChain ==
    [][/\ (/\ scoping = "Dynamic"
           /\ Len(calls') = Len(calls) + 1
           /\ calls'[Len(calls')].k = "exec_proc")
          => /\ dict_stack' = dict_stack
             /\ ~calls'[Len(calls')].pushed
       /\ (scoping = "Dynamic" /\ AtNameLookup /\ Top.k = "exec_proc")
          => /\ dict_stack' = dict_stack
             /\ IF Binders(CurObj.v) = {}
                THEN ret' = "undefined name" /\ op_stack' = op_stack
                ELSE /\ ret' = "none"
                     /\ op_stack' =
                          Append(op_stack,
                                 dict_stack[Highest(Binders(CurObj.v))].map[CurObj.v])]_vars

\* in dynamic mode a procedure that captured x = 1 has pushed x = 2, the
\* binding of the top frame of the live chain
C8_Witness ==
    /\ scoping = "Dynamic"
    /\ JustResolved(X)
    /\ ~Top.pushed
    /\ X \in DOMAIN Top.env /\ Top.env[X] = PSInt(1)
    /\ dict_stack # <<>>
    /\ X \in DOMAIN dict_stack[Len(dict_stack)].map
    /\ dict_stack[Len(dict_stack)].map[X] = PSInt(2)
    /\ op_stack # <<>> /\ Stack_peek(op_stack) = PSInt(2)

\* the frames below the top one are the same after the step
LowerFramesUnchanged ==
    \A i \in 1..(Len(dict_stack) - 1) :
        i <= Len(dict_stack') /\ dict_stack'[i] = dict_stack[i]

\* C9: def changes the top frame only, and there only the binding of its
\* key, which becomes its value; begin adds one frame above the unchanged
\* chain and a successful end removes exactly that top frame.  So the chain
\* after begin, def, end is the chain before the begin.
C9_DefWritesTopFrameOnly ==
    [][/\ IsOp("def")
          => /\ Len(dict_stack') = Len(dict_stack)
             /\ LowerFramesUnchanged
             /\ ret' # "none" => dict_stack' = dict_stack
             /\ ret' = "none"
                => LET value == op_stack[Len(op_stack)]
                       key == op_stack[Len(op_stack) - 1].v
                       old == dict_stack[Len(dict_stack)]
                       new == dict_stack'[Len(dict_stack)]
                   IN  /\ new.parent = old.parent
                       /\ DOMAIN new.map = DOMAIN old.map \cup {key}
                       /\ new.map[key] = value
                       /\ \A k \in DOMAIN old.map \ {key} : new.map[k] = old.map[k]
       /\ (IsOp("begin") /\ ret' = "none")
          => /\ Len(dict_stack') = Len(dict_stack) + 1
             /\ SubSeq(dict_stack', 1, Len(dict_stack)) = dict_stack
       /\ (IsOp("end") /\ ret' = "none")
          => dict_stack' = SubSeq(dict_stack, 1, Len(dict_stack) - 1)]_vars

BeginDefEndX ==
    <<PSInt(1), Op("dict"), Op("begin"), PSName(SlashX), PSInt(2), Op("def"),
      Op("end"), PSName(X)>>

\* after `1 dict begin /x 2 def end` the lookup of x is an undefined name
C9_Witness ==
    /\ calls # <<>>
    /\ Top.k = "run"
    /\ Top.toks = BeginDefEndX
    /\ Top.pc = 8
    /\ ret = "undefined name"

\* C10: the parent index of every frame is the index of a frame of the
\* chain, frame 0 alone is its own parent, and every other frame's parent
\* lies below it, so that following parent links reaches the root.
C10_ParentLinksWellFounded ==
    \A i \in 1..Len(dict_stack) :
        LET parent == dict_stack[i].parent IN
        /\ parent \in 0..(Len(dict_stack) - 1)
        /\ (parent = i - 1) <=> (i = 1)
        /\ i > 1 => parent < i - 1


\* C11: end executed with at most the root frame left returns
\* dictstackunderflow and leaves the scope chain and the operand stack as
\* they are; executed with more than one frame it succeeds and removes
\* exactly the top frame.
C11_EndRefusedAtRoot ==
    [][IsOp("end")
       => /\ op_stack' = op_stack
          /\ IF Len(dict_stack) <= 1
             THEN ret' = "dictstackunderflow" /\ dict_stack' = dict_stack
             ELSE /\ ret' = "none"
                  /\ dict_stack' = SubSeq(dict_stack, 1, Len(dict_stack) - 1)]_vars

\* end has just been refused on the root frame, under a non-empty operand
\* stack
C11_Witness ==
    /\ ret = "dictstackunderflow"
    /\ calls # <<>> /\ Top.k = "run" /\ Top.toks = <<Op("end")>>
    /\ dict_stack = <<Frame(EmptyMap, 0)>>
    /\ op_stack # <<>>


\* the step leaves the interpreter as the record st
StepIs(st) ==
    /\ op_stack' = st.op_stack /\ dict_stack' = st.dict_stack
    /\ scoping' = st.scoping /\ quit' = st.quit
    /\ calls' = st.calls /\ ret' = st.ret

\* C12: the dispatch of a bare name that spells a built-in operator is the
\* execution of that operator, in run() and in a procedure body, in both
\* scoping modes; it is never the push of a value that a frame binds to the
\* name.
C12_BuiltinNotShadowed ==
    [][(/\ CanFetch /\ CurObj.t = "Name"
        /\ Len(CurObj.v) = 1 /\ CurObj.v[1] \in OperatorNames)
       => /\ StepIs(execute_operator(Fetched, CurObj.v[1]))
          /\ \A i \in Binders(CurObj.v) :
               ~StepIs(Push(Fetched, dict_stack[i].map[CurObj.v]))]_vars

\* a procedure body has just dispatched `dynamic` in lexical mode while a
\* frame binds the name dynamic to 8: the mode is switched, 8 is not pushed
C12_Witness ==
    /\ calls # <<>> /\ Top.k = "exec_proc" /\ Top.pushed
    /\ Top.pc = 1 /\ Top.code[1] = Op("dynamic")
    /\ \E i \in Binders(<<"dynamic">>) : dict_stack[i].map[<<"dynamic">>] = PSInt(8)
    /\ scoping = "Dynamic"
    /\ op_stack = <<>>

\* C13: no Name value on the operand stack, and no key of a frame, is the
\* spelling of a built-in operator.
C13_NoOperatorSpellingAsName ==
    /\ \A i \in 1..Len(op_stack) :
         op_stack[i].t = "Name" => ~is_operator(op_stack[i].v)
    /\ \A i \in 1..Len(dict_stack) :
         \A k \in DOMAIN dict_stack[i].map : ~is_operator(k)

\* C14: no dispatch ends with the "Unknown operator" error.
C14_UnknownOperatorUnreachable == ret # "Unknown operator"

\* the word true has been tokenized in a procedure body and dispatched as a
\* Bool, while a frame holds the key true
C14_Witness ==
    /\ calls # <<>> /\ Top.k = "exec_proc"
    /\ Top.code = <<PSBool(TRUE)>> /\ Top.pc = 1
    /\ op_stack = <<PSBool(TRUE)>>
    /\ Binders(<<"true">>) # {}


\* the operand k places below the top of the operand stack (0 is the top)
Operand(k) == op_stack[Len(op_stack) - k]
\* the operator about to be dispatched has at least k operands
HasOperands(k) == Len(op_stack) >= k

\* C15: copy with a count n, 0 <= n <= c, on the c elements below the count
\* succeeds, keeps those c elements and appends the former top n of them in
\* their original order; with n = 0 the c elements are all that is left.
C15_CopyAppendsTopN ==
    [][(/\ IsOp("copy") /\ HasOperands(1) /\ Operand(0).t = "Int"
        /\ Operand(0).v >= 0 /\ Operand(0).v <= Len(op_stack) - 1)
       => LET n == Operand(0).v
              c == Len(op_stack) - 1
          IN  /\ ret' = "none"
              /\ Len(op_stack') = c + n
              /\ \A i \in 1..c : op_stack'[i] = op_stack[i]
              /\ \A j \in 1..n : op_stack'[c + j] = op_stack[c - n + j]]_vars

\* `0 1 2 copy` has left 0 1 0 1
C15_Witness ==
    /\ calls # <<>> /\ Top.toks = <<Op("copy")>> /\ Top.pc = 1
    /\ ret = "none"
    /\ op_stack = <<PSInt(0), PSInt(1), PSInt(0), PSInt(1)>>

\* C16: copy with a count above the number of elements below it, or with a
\* negative count, returns rangecheck and leaves those elements unchanged.
C16_CopyOutOfRange ==
    [][(/\ IsOp("copy") /\ HasOperands(1) /\ Operand(0).t = "Int"
        /\ (Operand(0).v < 0 \/ Operand(0).v > Len(op_stack) - 1))
       => /\ ret' = "rangecheck"
          /\ op_stack' = SubSeq(op_stack, 1, Len(op_stack) - 1)]_vars

\* C17: exch on at least two elements succeeds, swaps the top two and leaves
\* the elements below them unchanged; a second exch applied to its result
\* gives back the stack it started from.
C17_ExchSwapsTopTwo ==
    [][(IsOp("exch") /\ HasOperands(2))
       => LET c == Len(op_stack) IN
          /\ ret' = "none"
          /\ Len(op_stack') = c
          /\ op_stack'[c] = op_stack[c - 1] /\ op_stack'[c - 1] = op_stack[c]
          /\ \A i \in 1..(c - 2) : op_stack'[i] = op_stack[i]
          /\ Stack_exch(op_stack') = [ok |-> TRUE, s |-> op_stack]]_vars

\* `exch exch` has run on three elements whose top two differ
C17_Witness ==
    /\ calls # <<>> /\ Top.toks = <<Op("exch"), Op("exch")>> /\ Top.pc = 2
    /\ ret = "none"
    /\ op_stack = <<PSInt(2), PSInt(0), PSInt(1)>>

\* C18: exch on fewer than two elements, dup on the empty stack and pop on
\* the empty stack return stackunderflow, without a panic, and leave the
\* operand stack as it is.
C18_FailedPrimitiveKeepsStack ==
    [][(\/ IsOp("exch") /\ ~HasOperands(2)
        \/ IsOp("dup") /\ ~HasOperands(1)
        \/ IsOp("pop") /\ ~HasOperands(1))
       => ret' = "stackunderflow" /\ op_stack' = op_stack]_vars

\* exch has been refused on a stack of one element, which is still there
C18_Witness ==
    /\ calls # <<>> /\ Top.toks = <<Op("exch"), Op("exch")>> /\ Top.pc = 1
    /\ ret = "stackunderflow"
    /\ op_stack = <<PSInt(1)>>


\* the number of operands each operator of OpPrograms needs
Needs ==
    [o \in {"exch", "dup", "pop", "copy", "dict", "begin", "get", "getinterval",
            "putinterval"} |->
       CASE o \in {"dup", "pop", "copy", "dict", "begin"} -> 1
         [] o \in {"exch", "get"} -> 2
         [] o \in {"getinterval", "putinterval"} -> 3]

\* C19: an operator dispatched on an operand stack that holds fewer
\* operands than it needs returns stackunderflow.
C19_TooFewOperandsIsUnderflow ==
    [][(/\ AtOperator
        /\ CurObj.v[1] \in DOMAIN Needs
        /\ ~HasOperands(Needs[CurObj.v[1]]))
       => ret' = "stackunderflow"]_vars

\* the operands of get, getinterval and putinterval are of the right kinds
IsIndexable(v) == v.t \in {"String", "Array"}
RightKinds ==
    \/ IsOp("get") /\ IsIndexable(Operand(1)) /\ Operand(0).t = "Int"
    \/ IsOp("getinterval") /\ IsIndexable(Operand(2)) /\ Operand(1).t = "Int"
       /\ Operand(0).t = "Int"
    \/ IsOp("putinterval") /\ IsIndexable(Operand(2)) /\ Operand(1).t = "Int"
       /\ Operand(0).t = Operand(2).t
\* ... and the request lies within the bounds of the String or Sequence
InBounds ==
    \/ IsOp("get") /\ Operand(0).v >= 0 /\ Operand(0).v < Len(Operand(1).v)
    \/ IsOp("getinterval") /\ Operand(1).v >= 0 /\ Operand(0).v >= 0
       /\ Operand(1).v + Operand(0).v <= Len(Operand(2).v)
    \/ IsOp("putinterval") /\ Operand(1).v >= 0
       /\ Operand(1).v + Len(Operand(0).v) <= Len(Operand(2).v)
IsIndexedOp == IsOp("get") \/ IsOp("getinterval") \/ IsOp("putinterval")

\* C20: get, getinterval and putinterval with all their operands return
\* typecheck exactly when an operand is of the wrong kind; with operands of
\* the right kinds they succeed when the request is within bounds and return
\* rangecheck when it is not, a negative index or count included.
C20_RangecheckForOutOfBounds ==
    [][(IsIndexedOp /\ HasOperands(Needs[CurObj.v[1]]))
       => IF ~RightKinds THEN ret' = "typecheck"
          ELSE IF InBounds THEN ret' = "none"
          ELSE ret' = "rangecheck"]_vars


\* the stack below the top k operands
Below(k) == SubSeq(op_stack, 1, Len(op_stack) - k)
\* r is a remainder of a by b: smaller than b and of the sign of a
SmallRem(r, a, b) ==
    /\ r = 0 \/ (r < 0) = (a < 0)
    /\ IF b > 0 THEN -b < r /\ r < b ELSE b < r /\ b < -r
\* q is a divided by b, truncated toward zero
IsQuotient(a, b, q) == SmallRem(a - q * b, a, b)
\* r is what the truncating division of a by b leaves
IsRemainder(a, b, r) == SmallRem(r, a, b) /\ ((a - r) \div b) * b = a - r

\* C25: div, mod and idiv on two Integers fail with undefinedresult exactly
\* when the divisor is 0, pushing nothing; with a divisor other than 0 they
\* succeed and replace the operands by the truncating quotient (div, idiv)
\* or by the remainder (mod).
C25_DivModIdiv ==
    [][\A o \in {"div", "mod", "idiv"} :
         (IsOp(o) /\ HasOperands(2) /\ Operand(0).t = "Int" /\ Operand(1).t = "Int")
         => IF Operand(0).v = 0
            THEN /\ ret' = "undefinedresult"
                 /\ Len(op_stack') < Len(op_stack)
                 /\ op_stack' = SubSeq(op_stack, 1, Len(op_stack'))
            ELSE /\ ret' = "none"
                 /\ Len(op_stack') = Len(op_stack) - 1
                 /\ SubSeq(op_stack', 1, Len(op_stack) - 2) = Below(2)
                 /\ Stack_peek(op_stack').t = "Int"
                 /\ IF o = "mod"
                    THEN IsRemainder(Operand(1).v, Operand(0).v, Stack_peek(op_stack').v)
                    ELSE IsQuotient(Operand(1).v, Operand(0).v, Stack_peek(op_stack').v)
      ]_vars

\* C27: add, sub, mul, div or mod that fails with typecheck or
\* undefinedresult has removed both operands, pushed nothing and left the
\* rest of the stack and the scope chain alone; two operands that are not
\* both Integers are such a failure; idiv with a zero divisor has removed
\* the divisor only.
C27_FailedOperatorKeepsNothing ==
    [][/\ \A o \in {"add", "sub", "mul", "div", "mod"} :
            /\ (IsOp(o) /\ ret' \in {"typecheck", "undefinedresult"})
               => /\ HasOperands(2)
                  /\ op_stack' = Below(2)
                  /\ dict_stack' = dict_stack
            /\ (/\ IsOp(o) /\ HasOperands(2)
                /\ (Operand(0).t # "Int" \/ Operand(1).t # "Int"))
               => ret' = "typecheck"
       /\ (IsOp("idiv") /\ HasOperands(1) /\ Operand(0) = PSInt(0))
          => /\ ret' = "undefinedresult"
             /\ op_stack' = Below(1)
             /\ dict_stack' = dict_stack
      ]_vars

\* an add of 7, a string and 2 has failed and left the 7
C27_Witness ==
    /\ ret = "typecheck" /\ op_stack = <<PSInt(7)>>
    /\ calls # <<>> /\ Top.toks = <<Op("add")>>


\* the operands of putinterval are a destination, an index and a
\* replacement of the kind of the destination that fits at the index
PutFits ==
    /\ HasOperands(3)
    /\ Operand(2).t \in {"String", "Array"} /\ Operand(0).t = Operand(2).t
    /\ Operand(1).t = "Int" /\ Operand(1).v >= 0
    /\ Operand(1).v + Len(Operand(0).v) <= Len(Operand(2).v)

\* C26: putinterval with a destination d, an index and a replacement s of
\* the kind of d that fits (index + length(s) <= length(d)) consumes the
\* three operands and pushes one value of the kind and length of d, equal to
\* s at the positions index .. index+length(s)-1 and to d everywhere else.
C26_PutintervalReplaces ==
    [][(IsOp("putinterval") /\ PutFits)
       => LET d == Operand(2).v
              s == Operand(0).v
              index == Operand(1).v
          IN  /\ ret' = "none"
              /\ Len(op_stack') = Len(op_stack) - 2
              /\ SubSeq(op_stack', 1, Len(op_stack) - 3) = Below(3)
              /\ Stack_peek(op_stack').t = Operand(2).t
              /\ Len(Stack_peek(op_stack').v) = Len(d)
              /\ \A i \in 0..(Len(d) - 1) :
                   Stack_peek(op_stack').v[i + 1] =
                     IF index <= i /\ i <= index + Len(s) - 1
                     THEN s[i - index + 1] ELSE d[i + 1]
      ]_vars


\* the frames below the top one are the frames they were
FramesBelowTopKept ==
    /\ Len(dict_stack') >= Len(dict_stack) - 1
    /\ \A i \in 1..(Len(dict_stack) - 1) : dict_stack'[i] = dict_stack[i]

\* C24: an operator that changes one copy of a value changes no other copy:
\* putinterval rewrites only the destination it popped, def binds only in
\* the top frame and begin opens only the Mapping it popped, so every value
\* below their operands on the operand stack (a dup'ed String, Sequence or
\* Mapping among them) and every other frame stays as it was.
C24_ValueSemantics ==
    [][/\ IsOp("putinterval")
          => /\ SubSeq(op_stack', 1, Len(op_stack) - 3) = Below(3)
             /\ dict_stack' = dict_stack
       /\ IsOp("def")
          => /\ SubSeq(op_stack', 1, Len(op_stack) - 2) = Below(2)
             /\ FramesBelowTopKept
       /\ IsOp("begin")
          => /\ SubSeq(op_stack', 1, Len(op_stack) - 1) = Below(1)
             /\ SubSeq(dict_stack', 1, Len(dict_stack)) = dict_stack
      ]_vars

\* a Mapping was dup'ed, one copy opened and x defined in it: the frame
\* binds x and the copy on the operand stack is still empty
C24_Witness ==
    /\ Len(dict_stack) = 2 /\ X \in DOMAIN dict_stack[2].map
    /\ op_stack # <<>> /\ Stack_peek(op_stack) = PSDict(EmptyMap)


\* op_for is about to test its loop variable
AtForTest == Executing /\ Top.k = "op_for"
\* the sequence i, i+s, i+2s, ... has a next value within the limit
ForHasNext ==
    IF ~Top.entered THEN (IF Top.inc > 0 THEN Top.var <= Top.limit
                          ELSE Top.var >= Top.limit)
    ELSE IF Top.inc > 0
         THEN Top.var <= I32_MAX - Top.inc /\ Top.var + Top.inc <= Top.limit
         ELSE Top.var >= I32_MIN - Top.inc /\ Top.var + Top.inc >= Top.limit
ForNextValue == IF Top.entered THEN Top.var + Top.inc ELSE Top.var

\* C21: for with Integers i, s, l and a procedure: with s = 0 it returns
\* rangecheck and starts no loop; otherwise it consumes the four operands
\* and, while the sequence i, i+s, i+2s, ... has a next value v within the
\* limit (v <= l for s > 0, v >= l for s < 0), pushes v and nothing else
\* and runs the body, and returns Ok with the stack as the last body left
\* it when there is none.  `1 1 5 {dup mul} for` leaves 1 4 9 16 25.
C21_ForRunsTheSequence ==
    [][/\ (/\ IsOp("for") /\ HasOperands(4)
           /\ \A k \in 1..3 : Operand(k).t = "Int")
          => IF Operand(2).v = 0
             THEN ret' = "rangecheck" /\ Len(calls') = Len(calls)
             ELSE /\ ret' = "none" /\ op_stack' = Below(4)
                  /\ Len(calls') = Len(calls) + 1
                  /\ calls'[Len(calls')] =
                       ForAct(Operand(0), Operand(3).v, Operand(2).v, Operand(1).v)
       /\ (AtForTest /\ Top.proc.t = "Procedure")
          => IF ForHasNext
             THEN /\ ret' = "none"
                  /\ op_stack' = Append(op_stack, PSInt(ForNextValue))
                  /\ Len(calls') = Len(calls) + 1
                  /\ calls'[Len(calls')].k = "exec_proc"
                  /\ calls'[Len(calls')].code = Top.proc.code
                  /\ calls'[Len(calls')].pc = 0
                  /\ calls'[Len(calls)].var = ForNextValue
             ELSE /\ ret' = "none" /\ op_stack' = op_stack
                  /\ calls' = SubSeq(calls, 1, Len(calls) - 1)
       /\ (/\ InRun /\ Top.pc = Len(Top.toks)
           /\ Top.toks = ForProgram(1, 1, 5, <<Op("dup"), Op("mul")>>))
          => op_stack = <<PSInt(1), PSInt(4), PSInt(9), PSInt(16), PSInt(25)>>
      ]_vars


\* every procedure literal inside the value v (in a body, in a Sequence, in
\* a value of a Mapping or of a captured environment) has an empty
\* environment
RECURSIVE NestedLiteralsEmpty(_)
NestedLiteralsEmpty(v) ==
    CASE v.t = "Procedure" ->
           /\ \A i \in DOMAIN v.code :
                /\ v.code[i].t = "Procedure" => DOMAIN v.code[i].env = {}
                /\ NestedLiteralsEmpty(v.code[i])
           /\ \A n \in DOMAIN v.env : NestedLiteralsEmpty(v.env[n])
      [] v.t = "Array" ->
           \A i \in DOMAIN v.v :
             /\ v.v[i].t = "Procedure" => DOMAIN v.v[i].env = {}
             /\ NestedLiteralsEmpty(v.v[i])
      [] v.t = "Dict" -> \A n \in DOMAIN v.v : NestedLiteralsEmpty(v.v[n])
      [] OTHER -> TRUE

\* run() or a procedure body is about to dispatch a procedure literal
RunAtLiteral ==
    /\ InRun /\ Top.pc < Len(Top.toks) /\ ~quit /\ dict_stack # <<>>
    /\ NextTok.t = "Procedure"
BodyAtLiteral ==
    InProc /\ Top.pc < Len(Top.code) /\ Top.code[Top.pc + 1].t = "Procedure"

\* C22: a procedure literal dispatched by run() with an empty environment is
\* pushed with a copy of the bindings of the top frame, in both scoping
\* modes; a procedure literal dispatched from a procedure body is pushed
\* with an empty environment; and every procedure literal nested in a body
\* or a Sequence, wherever that value is held, has an empty environment.
C22_CaptureOnlyAtTopLevel ==
    [][/\ (RunAtLiteral /\ DOMAIN NextTok.env = {})
          => op_stack' = Append(op_stack,
                                [NextTok EXCEPT !.env = dict_stack[Len(dict_stack)].map])
       /\ BodyAtLiteral
          => /\ op_stack' = Append(op_stack, Top.code[Top.pc + 1])
             /\ DOMAIN Stack_peek(op_stack').env = {}
       /\ \A i \in DOMAIN op_stack : NestedLiteralsEmpty(op_stack[i])
       /\ \A i \in DOMAIN dict_stack :
            \A n \in DOMAIN dict_stack[i].map : NestedLiteralsEmpty(dict_stack[i].map[n])
       /\ \A j \in DOMAIN calls :
            /\ calls[j].k = "run"
               => \A i \in DOMAIN calls[j].toks : NestedLiteralsEmpty(calls[j].toks[i])
            /\ calls[j].k = "exec_proc"
               => NestedLiteralsEmpty(PSProcedure(calls[j].code, calls[j].env))
      ]_vars

\* x is bound at the root and a body has pushed its nested literal {x}: the
\* pushed procedure has no environment
C22_Witness ==
    /\ X \in DOMAIN dict_stack[1].map
    /\ Len(calls) = 2 /\ Top.k = "exec_proc" /\ Top.pc = 1
    /\ Top.code = <<Lit(<<PSName(X)>>)>>
    /\ op_stack # <<>> /\ Stack_peek(op_stack) = Lit(<<PSName(X)>>)

\* the step is a def of the name n into the top frame, frame i
DefOf(i, n) ==
    /\ IsOp("def") /\ HasOperands(2) /\ Operand(1) = PSName(n)
    /\ i = Len(dict_stack)

\* a body is about to resolve a name its captured environment binds, in
\* lexical mode, and has not rebound it in its own frame
AtCapturedName ==
    /\ InProc /\ Top.pc < Len(Top.code) /\ scoping = "Lexical" /\ Top.pushed
    /\ Top.code[Top.pc + 1].t = "Name"
    /\ Top.code[Top.pc + 1].v \in DOMAIN Top.env
    /\ Top.env_idx + 1 \in DOMAIN dict_stack
    /\ dict_stack[Top.env_idx + 1].map = Top.env

\* C23: a procedure with a non-empty environment that a frame holds under a
\* name keeps that environment through every step that is not a def of that
\* name in that frame (defs of other names or in other frames, begin, end,
\* executions); a name that resolves to a procedure pushes the procedure as
\* it is stored, environment included; and in lexical mode a body resolves a
\* name of its captured environment to the value captured.
C23_SnapshotNeverRefreshed ==
    [][/\ \A i \in DOMAIN dict_stack : \A n \in DOMAIN dict_stack[i].map :
            (/\ dict_stack[i].map[n].t = "Procedure"
             /\ DOMAIN dict_stack[i].map[n].env # {}
             /\ i \in DOMAIN dict_stack' /\ ~DefOf(i, n))
            => /\ n \in DOMAIN dict_stack'[i].map
               /\ dict_stack'[i].map[n] = dict_stack[i].map[n]
       /\ (/\ CanFetch
           /\ (IF Top.k = "run" THEN NextTok ELSE Top.code[Top.pc + 1]).t = "Name"
           /\ Len(op_stack') = Len(op_stack) + 1
           /\ Stack_peek(op_stack').t = "Procedure")
          => \E i \in DOMAIN dict_stack : \E n \in DOMAIN dict_stack[i].map :
               Stack_peek(op_stack') = dict_stack[i].map[n]
       /\ AtCapturedName
          => /\ ret' = "none"
             /\ op_stack' = Append(op_stack, Top.env[Top.code[Top.pc + 1].v])
      ]_vars

\* x is 2 at the root, and p, which captured x = 1, has resolved x to 1 in
\* lexical mode
C23_Witness ==
    /\ scoping = "Lexical"
    /\ X \in DOMAIN dict_stack[1].map /\ dict_stack[1].map[X] = PSInt(2)
    /\ Len(calls) = 2 /\ Top.k = "exec_proc" /\ Top.pc = 1
    /\ Top.code = <<PSName(X)>>
    /\ X \in DOMAIN Top.env /\ Top.env[X] = PSInt(1)
    /\ op_stack = <<PSInt(1)>>

\* C30: while a procedure executes in lexical mode, no step other than a
\* begin or an end changes a frame below the closure frame pushed for it,
\* and when it returns Ok with that frame on top the scope chain is the one
\* from before the call; in dynamic mode no frame is pushed, a def in the
\* body binds in the top frame and the return leaves the chain alone.
C30_DefInBodyIsEphemeral ==
    [][/\ \A j \in DOMAIN calls :
            (/\ calls[j].k = "exec_proc" /\ calls[j].pushed
             /\ ~IsOp("begin") /\ ~IsOp("end"))
            => /\ SubSeq(dict_stack', 1, calls[j].env_idx)
                    = SubSeq(dict_stack, 1, calls[j].env_idx)
               /\ (/\ Len(calls') < j /\ ret' = "none"
                   /\ Len(dict_stack) = calls[j].env_idx + 1)
                  => dict_stack' = SubSeq(dict_stack, 1, calls[j].env_idx)
       /\ (/\ InProc /\ ~Top.pushed /\ IsOp("def") /\ HasOperands(2)
           /\ Operand(1).t = "Name")
          => /\ Len(dict_stack') = Len(dict_stack)
             /\ Operand(1).v \in DOMAIN dict_stack'[Len(dict_stack)].map
             /\ dict_stack'[Len(dict_stack)].map[Operand(1).v] = Operand(0)
       /\ (InProc /\ ~Top.pushed /\ Top.pc = Len(Top.code))
          => dict_stack' = dict_stack
      ]_vars

\* in lexical mode `{/x 7 def} exec x` has run with x = 2 at the root: the
\* body's def is gone and x is still 2
C30_Witness ==
    /\ scoping = "Lexical"
    /\ Len(calls) = 1 /\ Top.k = "run" /\ Top.pc = 3 /\ Len(Top.toks) = 3
    /\ Top.toks[1].t = "Procedure"
    /\ Top.toks[1].code = <<PSName(SlashX), PSInt(7), Op("def")>>
    /\ dict_stack = <<Frame(dict_stack[1].map, 0)>>
    /\ X \in DOMAIN dict_stack[1].map /\ dict_stack[1].map[X] = PSInt(2)
    /\ op_stack # <<>> /\ Stack_peek(op_stack) = PSInt(2)


\* the loop of raw_tokens holds an unfinished token begun by `{` or `[` and
\* is about to read a character
InGroupToken ==
    /\ InRawTokens /\ Top.pc < Len(Top.program)
    /\ Top.s.buf # <<>> /\ Top.s.buf[1] \in {"{", "["}

\* C28: a token begun by `{` or `[` is emitted by a character exactly when
\* the character is `}` or `]` and leaves the brace counter and the bracket
\* counter both zero; every other character (whitespace, a parenthesis, a
\* nested opener, a closer that leaves a counter nonzero or negative) is
\* copied into the token, which stays open.
C28_GroupEndsAtBalancedCloser ==
    [][InGroupToken
       => LET c == Top.program[Top.pc + 1]
              s == Top.s
              t == calls'[1].s
          IN  IF c \in {"}", "]"} /\ t.brace_depth = 0 /\ t.bracket_depth = 0
              THEN t.toks = Append(s.toks, Append(s.buf, c)) /\ t.buf = <<>>
              ELSE t.toks = s.toks /\ t.buf = Append(s.buf, c)
      ]_vars


\* the names some frame of the chain binds, and x
KnownNames == {X} \cup UNION {DOMAIN dict_stack[i].map : i \in DOMAIN dict_stack}
\* the lexical resolution of n that run() starts at the top frame
LexicalFromTop(n) ==
    LET cur_top == UsizeSub1(Len(dict_stack), overflow_checks) IN
    IF cur_top.ok THEN lookup_from(dict_stack, cur_top.v, n) ELSE IndexPanic

\* C29: the frame at every index i >= 1 has the parent index i - 1, and for
\* every name the lexical resolution started at the top frame gives what the
\* dynamic resolution gives.
C29_LexicalFromTopIsDynamic ==
    /\ \A i \in 2..Len(dict_stack) : dict_stack[i].parent = i - 2
    /\ \A n \in KnownNames :
         LexicalFromTop(n) = lookup_rev(dict_stack, Len(dict_stack), n)


\* the step has started an execution of a procedure body
BodyStarted ==
    /\ Len(calls') = Len(calls) + 1
    /\ calls'[Len(calls')].k = "exec_proc" /\ calls'[Len(calls')].pc = 0

\* C31: with the halt flag set, a procedure body still dispatches its next
\* value, repeat still starts its next iteration and for still pushes its
\* next value and starts its next iteration; run() alone stops, returning Ok
\* without dispatching the tokens that are left.
C31_QuitStopsOnlyRun ==
    [][quit
       => /\ (InProc /\ Top.pc < Len(Top.code))
             => /\ Len(calls') >= Len(calls)
                /\ calls'[Len(calls)].pc = Top.pc + 1
          /\ (Executing /\ Top.k = "op_repeat" /\ Top.left > 0
              /\ Top.proc.t = "Procedure")
             => BodyStarted /\ calls'[Len(calls)].left = Top.left - 1
          /\ (AtForTest /\ Top.proc.t = "Procedure" /\ ForHasNext)
             => BodyStarted /\ op_stack' = Append(op_stack, PSInt(ForNextValue))
          /\ (InRun /\ Top.pc < Len(Top.toks))
             => /\ calls' = <<>> /\ ret' = "Ok"
                /\ op_stack' = op_stack /\ dict_stack' = dict_stack
      ]_vars

\* `2 {quit 7} repeat 8` is over: both iterations pushed their 7 after quit
\* was set, and the 8 was never pushed
C31_Witness ==
    /\ quit /\ calls = <<>> /\ ret = "Ok"
    /\ op_stack = <<PSInt(7), PSInt(7)>>


\* C32: every line `i s l {body} for` whose body succeeds and terminates is
\* eventually over: the loop variable fails the bound test, for returns and
\* run() with it, also when advancing the loop variable leaves i32.
C32_ForTerminates == <>(calls = <<>>)


\* the text is one procedure literal whose `{` is never closed
UnterminatedProcedure(program) ==
    /\ program # <<>> /\ program[1] = "{"
    /\ LET s == RawLoop(RawInit, program, 1) IN
       s.toks = <<>> /\ s.buf = program /\ s.brace_depth > 0

\* C33: tokenizing never fails, whatever the text, and the procedure an
\* unterminated procedure literal yields has the whole rest of the text as
\* its body.
C33_TokenizingIsTotal ==
    /\ ret # "panic"
    /\ (/\ calls # <<>> /\ Top.k = "tokenize"
        /\ UnterminatedProcedure(Top.program)
        /\ tokenize(Tail(Top.program)).ok)
       => Top.objs = <<PSProcedure(tokenize(Tail(Top.program)).objs, EmptyMap)>>

====
